---- MODULE Spec2Model ----
(***************************************************************************)
(* Model of the centralized scoring service (ScoringApi): the pass that    *)
(* collects the validators' snapshots of miner commits, reconciles them    *)
(* into miner_commits, filters the revealed commits, and dispatches each   *)
(* challenge's new commits to the challenge controller, with the bounded   *)
(* per-challenge LRU cache of scoring results.                             *)
(*                                                                         *)
(* Python dicts keep insertion order and the code iterates them, so a dict *)
(* is a sequence of entries [k |-> key, v |-> value] with distinct keys.   *)
(* A MinerChallengeCommit object that the code shares between containers   *)
(* lives in miner_commits only; the other containers (revealed_commits,    *)
(* miner_commits_cache) hold references <<miner key, challenge>> to it.    *)
(***************************************************************************)
EXTENDS Integers, Sequences, FiniteSets, TLC

VARIABLES
    scope,                    \* which input universe the sources draw from
    metagraph,                \* self.metagraph: [hotkeys, S], uid = index - 1
    pc,                       \* position of the pass worker inside forward
    pass,                     \* number of passes started so far
    validators_miner_commits, \* self.validators_miner_commits
    new_miner_commits,        \* local of _update_miner_commits
    merge_idx,                \* next entry of validators_miner_commits to merge
    miner_commits,            \* self.miner_commits (CanonicalState)
    miner_commits_cache,      \* self.miner_commits_cache (derived index)
    revealed_commits,         \* local of forward: challenge -> list of references
    reveal_log,               \* _list_existing/_revealed/_skipped_commits
    dispatch_idx,             \* next entry of revealed_commits to dispatch
    scoring_results,          \* self.scoring_results (ScoringLRUCache)
    scored_ids,               \* challenge manager: unique scored docker_hub_ids
    engine_runs,              \* the controller runs of the current pass, in order
    last_partition,           \* the last partition made by the dispatcher
    completed,                \* per (miner, challenge): results held at the end of a pass
    held_before,              \* the (miner, challenge) held at the end of an earlier pass
    run_pc,                   \* position of the supervisor inside run's loop
    alive,                    \* the pass workers (numbered by pass) whose thread is alive
    merged_under,             \* the rosters the running merge has read so far
    canonical_under,          \* the rosters read by the merge that built miner_commits
    storage_requests,         \* the write requests issued to the storage, as a set
    failed_run,               \* the controller run on which forward last raised
    main_pc,                  \* position of the main thread around the with block
    is_running,               \* self.is_running
    should_exit,              \* self.should_exit
    stage_log,                \* the calls forward has made in the pass, in order
    requests_sent,            \* the storage requests of the pass, in order, with their outcome
    responses                 \* snapshot scope: what the sources answered, until the merge is done

vars == <<scope, metagraph, pc, pass, validators_miner_commits, new_miner_commits,
          merge_idx, miner_commits, miner_commits_cache, revealed_commits,
          reveal_log, dispatch_idx, scoring_results, scored_ids, engine_runs,
          last_partition, completed, held_before, run_pc, alive, merged_under, canonical_under, storage_requests,
          failed_run, main_pc, is_running, should_exit, stage_log, requests_sent,
          responses>>

\* the variables of the main thread, which enters and leaves the with block
main_vars == <<main_pc, is_running, should_exit>>

-----------------------------------------------------------------------------
(* Bounds of the model *)

\* passes of the worker in one behaviour
MaxPasses == 2
\* passes in the long-run scope
MaxLongPasses == 3
\* passes in the reveal scope
MaxRevealPasses == 2
\* passes in the run scope
MaxRunPasses == 2
\* passes in the cache scope
MaxCachePasses == 2
\* passes in the exit scope
MaxExitPasses == 2
\* records reported by all sources together in one pass
MaxReports == 2
\* the same in the reveal scope
MaxRevealReports == 3
\* ScoringLRUCache maxsize_per_challenge (256 in the program), scaled down
MaxSize == 2
MaxOrderPasses == 2
MaxStorePasses == 1
MaxSnapshotPasses == 2
\* records reported by all sources together in one pass of the snapshot scope
MaxSnapshotReports == 3
\* ScoringLRUCache maxsize_per_challenge in the store scope: above two upload batches
MaxStoreSize == 11
\* upload requests of one _store_centralized_scoring call that can fail
MaxUploads == 3

-----------------------------------------------------------------------------
(* Python values *)

\* None / falsy values of the optional fields
NoTs == 0
NoEncryptedCommit == 0
NoKey == 0
NoCommit == <<>>
NoDockerHubId == 0
NoScore == -1

\* _store_centralized_scoring, line 803: results sent in one request at most
UPLOAD_BATCH == 5

\* constants.MIN_VALIDATOR_STAKE
MIN_VALIDATOR_STAKE == 10

ActiveChallenges == {"c1", "c2"}

-----------------------------------------------------------------------------
(* dict: insertion-ordered map *)

EmptyDict == <<>>

Keys(d) == {d[i].k : i \in 1..Len(d)}

Has(d, key) == \E i \in 1..Len(d) : d[i].k = key

IndexOf(d, key) == CHOOSE i \in 1..Len(d) : d[i].k = key

Get(d, key) == d[IndexOf(d, key)].v

\* d[key] = val: an existing key keeps its position
Put(d, key, val) ==
    IF Has(d, key)
    THEN [d EXCEPT ![IndexOf(d, key)] = [k |-> key, v |-> val]]
    ELSE Append(d, [k |-> key, v |-> val])

Items(d) == {<<d[i].k, d[i].v>> : i \in 1..Len(d)}

\* the same mapping, whatever the insertion order
SameMap(d1, d2) == Items(d1) = Items(d2)

RECURSIVE SeqToSet(_)
SeqToSet(s) == IF s = <<>> THEN {} ELSE {Head(s)} \cup SeqToSet(Tail(s))

-----------------------------------------------------------------------------
(* MinerChallengeCommit *)

\* The plaintext of a commit is "<challenge>---<docker_hub_id>"; the encrypted
\* commit determines it. Encrypted commits 1 and 2 hold the same docker image.
DockerOf(enc) == IF enc = 3 THEN 22 ELSE IF enc = 4 THEN 23 ELSE 21

PlainCommit(challenge, enc) == <<challenge, DockerOf(enc)>>

\* commit.commit.split("---")[1]
SplitDockerHubId(commit) == commit[2]

KeyOf(enc) == 100 + enc

\* a key that a source reports for the encrypted commit and that is not its key
OtherKeyOf(enc) == 200 + enc

\* The fields a source can report about results: none yet, or its own.
FreshResults ==
    [scoring_logs |-> <<>>, comparison_logs |-> <<>>, score |-> NoScore,
     penalty |-> NoScore, accepted |-> FALSE]

ReportedResults ==
    [scoring_logs |-> <<[input_hash |-> 9, miner_input |-> 9]>>,
     comparison_logs |-> <<[reference |-> 9, input_hash |-> 9]>>,
     score |-> 5, penalty |-> 1, accepted |-> TRUE]

MinerChallengeCommit(enc, ts, key, commit, res) ==
    [encrypted_commit |-> enc, commit_timestamp |-> ts, key |-> key,
     commit |-> commit, docker_hub_id |-> NoDockerHubId,
     scoring_logs |-> res.scoring_logs, comparison_logs |-> res.comparison_logs,
     score |-> res.score, penalty |-> res.penalty, accepted |-> res.accepted]

Results(c) ==
    [scoring_logs |-> c.scoring_logs, comparison_logs |-> c.comparison_logs,
     score |-> c.score, penalty |-> c.penalty, accepted |-> c.accepted]

HasResults(c) == Results(c) # FreshResults

-----------------------------------------------------------------------------
(* _update_validators_miner_commits: the sources and what they report *)

\* a timestamp is usable when it is set (Python truthiness)
Truthy(ts) == ts # NoTs

\* valid_validators: (uid, hotkey) of every uid whose stake reaches the minimum
RECURSIVE ValidValidatorsFrom(_, _)
ValidValidatorsFrom(mg, i) ==
    IF i > Len(mg.hotkeys) THEN <<>>
    ELSE (IF mg.S[i] >= MIN_VALIDATOR_STAKE THEN <<(<<i - 1, mg.hotkeys[i]>>)>> ELSE <<>>)
         \o ValidValidatorsFrom(mg, i + 1)

ValidValidators(mg) == ValidValidatorsFrom(mg, 1)

HotkeyInMetagraph(mg, hotkey) == \E i \in 1..Len(mg.hotkeys) : mg.hotkeys[i] = hotkey

\* One record of a source's response: the miner (uid, hotkey), the challenge
\* and the commit, as the source's JSON lists them.
\* this_validator_miner_commits.setdefault((uid, hotkey), {})[challenge] = commit,
\* skipping the miners whose hotkey is not in the metagraph
ParseOne(mg, snapshot, rep) ==
    IF ~HotkeyInMetagraph(mg, rep.miner[2]) THEN snapshot
    ELSE LET inner == IF Has(snapshot, rep.miner) THEN Get(snapshot, rep.miner)
                      ELSE EmptyDict
         IN Put(snapshot, rep.miner, Put(inner, rep.challenge, rep.commit))

RECURSIVE ParseResponse(_, _, _)
ParseResponse(mg, snapshot, reps) ==
    IF reps = <<>> THEN snapshot
    ELSE ParseResponse(mg, ParseOne(mg, snapshot, Head(reps)), Tail(reps))

\* The reports of `reports` that source number i made, in order
RECURSIVE ReportsOf(_, _)
ReportsOf(reports, i) ==
    IF reports = <<>> THEN <<>>
    ELSE (IF Head(reports).source = i THEN <<Head(reports)>> ELSE <<>>)
         \o ReportsOf(Tail(reports), i)

\* MinerChallengeCommit.model_validate raises on a record without encrypted_commit
Validates(commit) == commit.encrypted_commit # NoEncryptedCommit

\* the loop over a response, lines 600-610: model_validate raises on the first invalid
\* record of a miner whose hotkey is in the metagraph
RECURSIVE ValidationRaises(_, _)
ValidationRaises(mg, reps) ==
    IF reps = <<>> THEN FALSE
    ELSE IF ~HotkeyInMetagraph(mg, Head(reps).miner[2]) THEN ValidationRaises(mg, Tail(reps))
    ELSE IF ~Validates(Head(reps).commit) THEN TRUE
    ELSE ValidationRaises(mg, Tail(reps))

\* mutant of FetchAll: a failed fetch ends the loop over the sources
RECURSIVE FetchAllStopsAtFailure(_, _, _, _, _)
FetchAllStopsAtFailure(mg, valid, i, failed, reports) ==
    IF i > Len(valid) THEN EmptyDict
    ELSE IF i \in failed THEN EmptyDict
    ELSE <<[k |-> valid[i],
            v |-> ParseResponse(mg, EmptyDict, ReportsOf(reports, i))]>>
         \o FetchAllStopsAtFailure(mg, valid, i + 1, failed, reports)

\* the records of a response that come before the one on which model_validate raises
RECURSIVE ParsedBeforeRaise(_, _)
ParsedBeforeRaise(mg, reps) ==
    IF reps = <<>> THEN <<>>
    ELSE IF HotkeyInMetagraph(mg, Head(reps).miner[2]) /\ ~Validates(Head(reps).commit)
    THEN <<>>
    ELSE <<Head(reps)>> \o ParsedBeforeRaise(mg, Tail(reps))

\* a loop that records the snapshot of a source as far as it was parsed
RECURSIVE FetchAllKeepsParsed(_, _, _, _, _)
FetchAllKeepsParsed(mg, valid, i, failed, reports) ==
    IF i > Len(valid) THEN EmptyDict
    ELSE LET rest == FetchAllKeepsParsed(mg, valid, i + 1, failed, reports)
         IN IF i \in failed THEN rest
            ELSE <<[k |-> valid[i],
                    v |-> ParseResponse(mg, EmptyDict,
                              ParsedBeforeRaise(mg, ReportsOf(reports, i)))]>> \o rest
\* The loop over valid_validators: a source whose fetch failed leaves no entry
RECURSIVE FetchAll(_, _, _, _, _)
FetchAll(mg, valid, i, failed, reports) ==
    IF i > Len(valid) THEN EmptyDict
    ELSE LET rest == FetchAll(mg, valid, i + 1, failed, reports)
         IN IF i \in failed \/ ValidationRaises(mg, ReportsOf(reports, i)) THEN rest
            ELSE <<[k |-> valid[i],
                    v |-> ParseResponse(mg, EmptyDict, ReportsOf(reports, i))]>> \o rest

-----------------------------------------------------------------------------
(* _update_miner_commits: merge of the snapshots *)

BothSet(a, b) == Truthy(a.commit_timestamp) /\ Truthy(b.commit_timestamp)

\* mutant of MergeSame: the comparison of the timestamps is reversed, so the
\* newer timestamp is kept
MergeSameKeepsNewer(current, cand) ==
    [current EXCEPT
        !.commit_timestamp =
            IF BothSet(cand, current) /\ cand.commit_timestamp > current.commit_timestamp
            THEN cand.commit_timestamp ELSE @,
        !.key = IF @ = NoKey THEN cand.key ELSE @,
        !.commit = IF @ = NoCommit THEN cand.commit ELSE @]

\* same encrypted commit: older timestamp, backfill of key and commit
MergeSame(current, cand) ==
    [current EXCEPT
        !.commit_timestamp =
            IF BothSet(cand, current) /\ cand.commit_timestamp < current.commit_timestamp
            THEN cand.commit_timestamp ELSE @,
        !.key = IF @ = NoKey THEN cand.key ELSE @,
        !.commit = IF @ = NoCommit THEN cand.commit ELSE @]

\* mutant of MergeDifferent: a missing timestamp of the current record counts
\* as older than any timestamp of the candidate
MergeDifferentMissingIsOldest(current, cand) ==
    IF /\ Truthy(cand.commit_timestamp)
       /\ (~Truthy(current.commit_timestamp)
           \/ cand.commit_timestamp > current.commit_timestamp)
    THEN [current EXCEPT !.commit_timestamp = cand.commit_timestamp]
    ELSE current

\* different encrypted commit: only the timestamp of the current record is
\* moved to the newer one; otherwise the candidate is skipped
MergeDifferent(current, cand) ==
    IF BothSet(cand, current) /\ cand.commit_timestamp > current.commit_timestamp
    THEN [current EXCEPT !.commit_timestamp = cand.commit_timestamp]
    ELSE current

MergeCommit(current, cand) ==
    IF cand.encrypted_commit = current.encrypted_commit
    THEN MergeSame(current, cand)
    ELSE MergeDifferent(current, cand)

\* the loop over one miner's challenges of one snapshot
RECURSIVE MergeChallenges(_, _)
MergeChallenges(mine, theirs) ==
    IF theirs = <<>> THEN mine
    ELSE LET e == Head(theirs)
             merged == IF ~Has(mine, e.k) THEN Put(mine, e.k, e.v)
                       ELSE Put(mine, e.k, MergeCommit(Get(mine, e.k), e.v))
         IN MergeChallenges(merged, Tail(theirs))

IsValidMiner(mg, miner) ==
    /\ miner[1] < Len(mg.hotkeys)
    /\ miner[2] = mg.hotkeys[miner[1] + 1]

\* the loop over the miners of one snapshot
RECURSIVE MergeSnapshot(_, _, _)
MergeSnapshot(mg, acc, snapshot) ==
    IF snapshot = <<>> THEN acc
    ELSE LET e == Head(snapshot)
             next == IF ~IsValidMiner(mg, e.k) THEN acc
                     ELSE IF ~Has(acc, e.k) THEN Put(acc, e.k, e.v)
                     ELSE Put(acc, e.k, MergeChallenges(Get(acc, e.k), e.v))
         IN MergeSnapshot(mg, next, Tail(snapshot))

\* the loop over all snapshots, in the order of validators_miner_commits
RECURSIVE MergeAll(_, _, _)
MergeAll(mg, acc, snapshots) ==
    IF snapshots = <<>> THEN acc
    ELSE MergeAll(mg, MergeSnapshot(mg, acc, Head(snapshots).v), Tail(snapshots))

\* mutant of CarryCommit: the penalty is not carried forward
CarryCommitWithoutPenalty(existing, new_commit) ==
    IF existing.encrypted_commit = new_commit.encrypted_commit
    THEN [new_commit EXCEPT
            !.scoring_logs = existing.scoring_logs,
            !.comparison_logs = existing.comparison_logs,
            !.score = existing.score,
            !.accepted = existing.accepted]
    ELSE new_commit

\* results of the existing record are kept when the encrypted commit is the same
CarryCommit(existing, new_commit) ==
    IF existing.encrypted_commit = new_commit.encrypted_commit
    THEN [new_commit EXCEPT
            !.scoring_logs = existing.scoring_logs,
            !.comparison_logs = existing.comparison_logs,
            !.score = existing.score,
            !.penalty = existing.penalty,
            !.accepted = existing.accepted]
    ELSE new_commit

CarryChallenges(existing_challenges, new_challenges) ==
    [i \in 1..Len(new_challenges) |->
        IF Has(existing_challenges, new_challenges[i].k)
        THEN [k |-> new_challenges[i].k,
              v |-> CarryCommit(Get(existing_challenges, new_challenges[i].k),
                                new_challenges[i].v)]
        ELSE new_challenges[i]]

CarryForward(existing, new) ==
    [i \in 1..Len(new) |->
        IF Has(existing, new[i].k)
        THEN [k |-> new[i].k, v |-> CarryChallenges(Get(existing, new[i].k), new[i].v)]
        ELSE new[i]]

\* tuple comparison of (uid, hotkey)
KeyLess(a, b) == a[1] < b[1] \/ (a[1] = b[1] /\ a[2] < b[2])

RemoveAt(s, i) == SubSeq(s, 1, i - 1) \o SubSeq(s, i + 1, Len(s))


\* a dict comprehension over the items as they were inserted, without sorted()
RECURSIVE SortByKeyAsInserted(_)
SortByKeyAsInserted(d) ==
    IF d = <<>> THEN <<>> ELSE <<Head(d)>> \o SortByKeyAsInserted(Tail(d))
\* sorted(self.miner_commits.items(), key=lambda item: item[0])
RECURSIVE SortByKey(_)
SortByKey(d) ==
    IF d = <<>> THEN <<>>
    ELSE LET m == CHOOSE i \in 1..Len(d) :
                    \A j \in 1..Len(d) : j # i => KeyLess(d[i].k, d[j].k) \/ (d[i].k = d[j].k /\ i < j)
         IN <<d[m]>> \o SortByKey(RemoveAt(d, m))

\* {f"{challenge_name}---{encrypted_commit}": commit ...}
RECURSIVE IndexChallenges(_, _, _)
IndexChallenges(idx, miner, challenges) ==
    IF challenges = <<>> THEN idx
    ELSE IndexChallenges(
            Put(idx, <<Head(challenges).k, Head(challenges).v.encrypted_commit>>,
                <<miner, Head(challenges).k>>),
            miner, Tail(challenges))

RECURSIVE BuildIndex(_, _)
BuildIndex(idx, commits) ==
    IF commits = <<>> THEN idx
    ELSE BuildIndex(IndexChallenges(idx, Head(commits).k, Head(commits).v), Tail(commits))

\* the whole of _update_miner_commits as a function of its inputs
Reconcile(mg, snapshots, existing) ==
    SortByKey(CarryForward(existing, MergeAll(mg, EmptyDict, snapshots)))

-----------------------------------------------------------------------------
(* Access to the commit objects held in miner_commits *)

GetCommit(mc, ref) == Get(Get(mc, ref[1]), ref[2])

HasCommit(mc, ref) == Has(mc, ref[1]) /\ Has(Get(mc, ref[1]), ref[2])

SetCommit(mc, ref, commit) == Put(mc, ref[1], Put(Get(mc, ref[1]), ref[2], commit))

\* (miner, challenge) of every commit, in the order the nested loops visit them
RECURSIVE RefsOfMiner(_, _)
RefsOfMiner(miner, challenges) ==
    IF challenges = <<>> THEN <<>>
    ELSE <<(<<miner, Head(challenges).k>>)>> \o RefsOfMiner(miner, Tail(challenges))

RECURSIVE Refs(_)
Refs(mc) ==
    IF mc = <<>> THEN <<>>
    ELSE RefsOfMiner(Head(mc).k, Head(mc).v) \o Refs(Tail(mc))

-----------------------------------------------------------------------------
(* get_revealed_commits *)

\* mutant of RevealClass: a commit whose docker_hub_id is already set counts as
\* existing
RevealClassByDockerHubId(commit, seen, scored) ==
    IF commit.commit = NoCommit THEN "skipped"
    ELSE IF \/ commit.docker_hub_id # NoDockerHubId
            \/ SplitDockerHubId(commit.commit) \in seen
            \/ SplitDockerHubId(commit.commit) \in scored
         THEN "existing"
         ELSE "revealed"


\* a classification that does not ask the challenge manager for the scored ids
RevealClassIgnoresScored(commit, seen, scored) ==
    IF commit.commit = NoCommit THEN "skipped"
    ELSE IF SplitDockerHubId(commit.commit) \in seen
         THEN "existing"
         ELSE "revealed"
\* the branch taken for one commit: "skipped", "existing" or "revealed"
RevealClass(commit, seen, scored) ==
    IF commit.commit = NoCommit THEN "skipped"
    ELSE IF SplitDockerHubId(commit.commit) \in seen
            \/ SplitDockerHubId(commit.commit) \in scored
         THEN "existing"
         ELSE "revealed"

\* mutant of RevealOne: the docker_hub_id of a revealed commit is not added to
\* seen_docker_hub_ids
RevealOneForgetsSeen(acc, ref, scored) ==
    LET commit == GetCommit(acc.mc, ref)
        class == RevealClass(commit, acc.seen, scored[ref[2]])
        listed == IF Has(acc.revealed, ref[2]) THEN acc.revealed
                  ELSE Put(acc.revealed, ref[2], <<>>)
    IN IF class = "skipped"
       THEN [acc EXCEPT !.skipped = @ \cup {ref}]
       ELSE IF class = "existing"
       THEN [acc EXCEPT !.revealed = listed, !.existing = @ \cup {ref}]
       ELSE [acc EXCEPT
               !.mc = SetCommit(@, ref,
                        [commit EXCEPT !.docker_hub_id = SplitDockerHubId(commit.commit)]),
               !.revealed = Put(listed, ref[2], Append(Get(listed, ref[2]), ref)),
               !.shown = @ \cup {ref}]


\* an iteration that puts a revealed commit at the front of its challenge's list
RevealOnePrepends(acc, ref, scored) ==
    LET commit == GetCommit(acc.mc, ref)
        class == RevealClass(commit, acc.seen, scored[ref[2]])
        listed == IF Has(acc.revealed, ref[2]) THEN acc.revealed
                  ELSE Put(acc.revealed, ref[2], <<>>)
    IN IF class = "skipped"
       THEN [acc EXCEPT !.skipped = @ \cup {ref}]
       ELSE IF class = "existing"
       THEN [acc EXCEPT !.revealed = listed, !.existing = @ \cup {ref}]
       ELSE [acc EXCEPT
               !.mc = SetCommit(@, ref,
                        [commit EXCEPT !.docker_hub_id = SplitDockerHubId(commit.commit)]),
               !.revealed = Put(listed, ref[2], <<ref>> \o Get(listed, ref[2])),
               !.seen = @ \cup {SplitDockerHubId(commit.commit)},
               !.shown = @ \cup {ref}]
\* an iteration that looks for the id among the commits already listed for the
\* commit's own challenge only
RevealOneSeenPerChallenge(acc, ref, scored) ==
    LET commit == GetCommit(acc.mc, ref)
        listed == IF Has(acc.revealed, ref[2]) THEN acc.revealed
                  ELSE Put(acc.revealed, ref[2], <<>>)
        seen_here == {SplitDockerHubId(GetCommit(acc.mc, r).commit) :
                         r \in SeqToSet(Get(listed, ref[2]))}
        class == RevealClass(commit, seen_here, scored[ref[2]])
    IN IF class = "skipped"
       THEN [acc EXCEPT !.skipped = @ \cup {ref}]
       ELSE IF class = "existing"
       THEN [acc EXCEPT !.revealed = listed, !.existing = @ \cup {ref}]
       ELSE [acc EXCEPT
               !.mc = SetCommit(@, ref,
                        [commit EXCEPT !.docker_hub_id = SplitDockerHubId(commit.commit)]),
               !.revealed = Put(listed, ref[2], Append(Get(listed, ref[2]), ref)),
               !.seen = @ \cup {SplitDockerHubId(commit.commit)},
               !.shown = @ \cup {ref}]
\* one iteration of the nested loops
RevealOne(acc, ref, scored) ==
    LET commit == GetCommit(acc.mc, ref)
        class == RevealClass(commit, acc.seen, scored[ref[2]])
        listed == IF Has(acc.revealed, ref[2]) THEN acc.revealed
                  ELSE Put(acc.revealed, ref[2], <<>>)
    IN IF class = "skipped"
       THEN [acc EXCEPT !.skipped = @ \cup {ref}]
       ELSE IF class = "existing"
       THEN [acc EXCEPT !.revealed = listed, !.existing = @ \cup {ref}]
       ELSE [acc EXCEPT
               !.mc = SetCommit(@, ref,
                        [commit EXCEPT !.docker_hub_id = SplitDockerHubId(commit.commit)]),
               !.revealed = Put(listed, ref[2], Append(Get(listed, ref[2]), ref)),
               !.seen = @ \cup {SplitDockerHubId(commit.commit)},
               !.shown = @ \cup {ref}]

RECURSIVE RevealLoop(_, _, _)
RevealLoop(acc, refs, scored) ==
    IF refs = <<>> THEN acc
    ELSE RevealLoop(RevealOne(acc, Head(refs), scored), Tail(refs), scored)

\* the call: the commits after it (docker_hub_id set on the revealed ones),
\* the returned dict and the three logged lists
GetRevealedCommits(mc, scored) ==
    RevealLoop([mc |-> mc, seen |-> {}, revealed |-> EmptyDict,
                existing |-> {}, shown |-> {}, skipped |-> {}],
               Refs(mc), scored)

-----------------------------------------------------------------------------
(* ScoringLRUCache: one recency-ordered dict per challenge, oldest first *)

CacheIds(cache) == Keys(cache)

\* get_all_for_challenge: a copy of the challenge's entries
GetAllForChallenge(results, challenge) ==
    IF challenge \in DOMAIN results THEN results[challenge] ELSE EmptyDict

RemoveKey(cache, id) == IF Has(cache, id) THEN RemoveAt(cache, IndexOf(cache, id)) ELSE cache

\* get: a hit moves the entry to the most recently used end
CacheTouch(cache, id) ==
    IF Has(cache, id) THEN Append(RemoveKey(cache, id), [k |-> id, v |-> Get(cache, id)])
    ELSE cache

\* maxsize_per_challenge
SizeBound == IF scope = "store" THEN MaxStoreSize ELSE MaxSize

\* set: insert or overwrite as most recently used, evict the oldest over the bound
CacheSet(cache, id, result) ==
    LET put == Append(RemoveKey(cache, id), [k |-> id, v |-> result])
    IN IF Len(put) > SizeBound THEN Tail(put) ELSE put

-----------------------------------------------------------------------------
(* _score_and_compare_new_miner_commits *)

\* seeds of a cache hit: miner_input of every input hash not collected yet
RECURSIVE CollectSeeds(_, _)
CollectSeeds(acc, logs) ==
    IF logs = <<>> THEN acc
    ELSE LET log == Head(logs)
             next == IF log.input_hash # 0 /\ log.input_hash \notin acc.hashes
                     THEN [acc EXCEPT !.hashes = @ \cup {log.input_hash},
                                      !.seed_inputs = Append(@, log.miner_input)]
                     ELSE acc
         IN CollectSeeds(next, Tail(logs))

\* mutant of PartitionOne: the cache is not consulted, every revealed commit
\* is a new commit
PartitionOneAllNew(acc, ref) == [acc EXCEPT !.new_commits = Append(@, ref)]

\* mutant of PartitionOne: the cached result is read from the copy returned by
\* get_all_for_challenge, not with get
PartitionOneReadsCopy(acc, ref) ==
    LET commit == GetCommit(acc.mc, ref)
    IN IF commit.docker_hub_id \in CacheIds(acc.cache)
       THEN LET cached_result == Get(acc.cache, commit.docker_hub_id)
                seeds == CollectSeeds([hashes |-> acc.hashes, seed_inputs |-> acc.seed_inputs],
                                      cached_result.scoring_logs)
            IN [acc EXCEPT
                  !.mc = SetCommit(@, ref,
                            [commit EXCEPT !.scoring_logs = cached_result.scoring_logs,
                                           !.comparison_logs = cached_result.comparison_logs]),
                  !.hits = Append(@, ref),
                  !.hashes = seeds.hashes,
                  !.seed_inputs = seeds.seed_inputs]
       ELSE [acc EXCEPT !.new_commits = Append(@, ref)]
\* one iteration of the partition loop
PartitionOne(acc, ref) ==
    LET commit == GetCommit(acc.mc, ref)
    IN IF commit.docker_hub_id \in CacheIds(acc.cache)
       THEN LET cached_result == Get(acc.cache, commit.docker_hub_id)
                seeds == CollectSeeds([hashes |-> acc.hashes, seed_inputs |-> acc.seed_inputs],
                                      cached_result.scoring_logs)
            IN [acc EXCEPT
                  !.mc = SetCommit(@, ref,
                            [commit EXCEPT !.scoring_logs = cached_result.scoring_logs,
                                           !.comparison_logs = cached_result.comparison_logs]),
                  !.cache = CacheTouch(@, commit.docker_hub_id),
                  !.hits = Append(@, ref),
                  !.hashes = seeds.hashes,
                  !.seed_inputs = seeds.seed_inputs]
       ELSE [acc EXCEPT !.new_commits = Append(@, ref)]

RECURSIVE PartitionLoop(_, _)
PartitionLoop(acc, refs) ==
    IF refs = <<>> THEN acc
    ELSE PartitionLoop(PartitionOne(acc, Head(refs)), Tail(refs))

Partition(mc, cache, revealed_commits_list) ==
    PartitionLoop([mc |-> mc, cache |-> cache, new_commits |-> <<>>, hits |-> <<>>,
                   hashes |-> {}, seed_inputs |-> <<>>],
                  revealed_commits_list)


\* a key that is the timestamp itself, so that a missing timestamp sorts first
SortKeyLeqMissingFirst(mc, a, b) ==
    GetCommit(mc, a).commit_timestamp <= GetCommit(mc, b).commit_timestamp
\* key=lambda x: x.commit_timestamp if x.commit_timestamp else float("inf")
SortKeyLeq(mc, a, b) ==
    LET ta == GetCommit(mc, a).commit_timestamp
        tb == GetCommit(mc, b).commit_timestamp
    IN IF ~Truthy(tb) THEN TRUE
       ELSE IF ~Truthy(ta) THEN FALSE
       ELSE ta <= tb

\* sorted(): stable
RECURSIVE InsertSorted(_, _, _)
InsertSorted(mc, sorted, ref) ==
    IF sorted = <<>> THEN <<ref>>
    ELSE IF SortKeyLeq(mc, Head(sorted), ref)
         THEN <<Head(sorted)>> \o InsertSorted(mc, Tail(sorted), ref)
         ELSE <<ref>> \o sorted

RECURSIVE SortedByTimestamp(_, _)
SortedByTimestamp(mc, refs) ==
    IF refs = <<>> THEN <<>>
    ELSE InsertSorted(mc, SortedByTimestamp(mc, SubSeq(refs, 1, Len(refs) - 1)),
                      refs[Len(refs)])

\* controller.start_challenge(): the run of pass n writes its logs on every
\* commit it was given
EngineLogs(n, commit) ==
    [commit EXCEPT
        !.scoring_logs = <<[input_hash |-> n, miner_input |-> commit.docker_hub_id]>>,
        !.comparison_logs = <<[reference |-> n, input_hash |-> n]>>]

RECURSIVE RunEngine(_, _, _)
RunEngine(mc, n, refs) ==
    IF refs = <<>> THEN mc
    ELSE RunEngine(SetCommit(mc, Head(refs), EngineLogs(n, GetCommit(mc, Head(refs)))),
                   n, Tail(refs))

\* challenge manager update_miner_scores: sets score, penalty and accepted
TrackerScore(commit, accept) ==
    [commit EXCEPT !.score = IF accept THEN 1 ELSE 0, !.penalty = 0, !.accepted = accept]

RECURSIVE UpdateMinerScores(_, _, _)
UpdateMinerScores(mc, refs, accept) ==
    IF refs = <<>> THEN mc
    ELSE UpdateMinerScores(
            SetCommit(mc, Head(refs), TrackerScore(GetCommit(mc, Head(refs)), accept)),
            Tail(refs), accept)

DockerIds(mc, refs) == [i \in 1..Len(refs) |-> GetCommit(mc, refs[i]).docker_hub_id]

\* mutant of UpdateCacheLoop: the results are appended to the challenge's dict
\* and nothing is evicted
RECURSIVE UpdateCacheLoopUnbounded(_, _, _)
UpdateCacheLoopUnbounded(cache, mc, refs) ==
    IF refs = <<>> THEN cache
    ELSE LET commit == GetCommit(mc, Head(refs))
         IN UpdateCacheLoopUnbounded(
                Append(RemoveKey(cache, commit.docker_hub_id),
                       [k |-> commit.docker_hub_id,
                        v |-> [scoring_logs |-> commit.scoring_logs,
                               comparison_logs |-> commit.comparison_logs]]),
                mc, Tail(refs))

\* a cache update that refreshes the entries the cache holds and adds none
RECURSIVE UpdateCacheLoopHitsOnly(_, _, _)
UpdateCacheLoopHitsOnly(cache, mc, refs) ==
    IF refs = <<>> THEN cache
    ELSE LET commit == GetCommit(mc, Head(refs))
         IN UpdateCacheLoopHitsOnly(
                IF Has(cache, commit.docker_hub_id)
                THEN CacheSet(cache, commit.docker_hub_id,
                              [scoring_logs |-> commit.scoring_logs,
                               comparison_logs |-> commit.comparison_logs])
                ELSE cache,
                mc, Tail(refs))
\* forward: the loop that writes every revealed commit's logs into the cache
RECURSIVE UpdateCacheLoop(_, _, _)
UpdateCacheLoop(cache, mc, refs) ==
    IF refs = <<>> THEN cache
    ELSE LET commit == GetCommit(mc, Head(refs))
         IN UpdateCacheLoop(
                CacheSet(cache, commit.docker_hub_id,
                         [scoring_logs |-> commit.scoring_logs,
                          comparison_logs |-> commit.comparison_logs]),
                mc, Tail(refs))

-----------------------------------------------------------------------------
(* What the sources can report, per scope *)

Miner1 == <<2, 12>>
Miner2 == <<3, 13>>

\* uids 0 and 1 hold enough stake to be sources; uids 2 and 3 are miners
InitialMetagraph == [hotkeys |-> <<10, 11, 12, 13>>, S |-> <<10, 10, 0, 0>>]

\* a miner whose hotkey the metagraph does not hold
Unregistered == <<2, 15>>

ScopeRefs(sc) ==
    IF sc = "reveal" THEN {Miner1, Miner2} \X ActiveChallenges
    ELSE IF sc = "order" THEN {<<Miner1, "c1">>, <<Miner2, "c1">>}
    ELSE IF sc = "snapshot" THEN {<<Miner1, "c1">>, <<Miner2, "c1">>, <<Unregistered, "c1">>}
    ELSE IF sc \in {"pipeline", "cache", "store"}
    THEN {<<Miner1, "c1">>, <<Miner2, "c1">>, <<Miner1, "c2">>}
    ELSE {<<Miner1, "c1">>}

\* a commit as a source reports it: key and plaintext are present or not yet known
SourceCommit(challenge, enc, ts, has_key, has_commit, res) ==
    MinerChallengeCommit(enc, ts,
                         IF has_key THEN KeyOf(enc) ELSE NoKey,
                         IF has_commit THEN PlainCommit(challenge, enc) ELSE NoCommit,
                         res)

\* a record without its required encrypted_commit field
InvalidCommit(challenge) ==
    [SourceCommit(challenge, 1, 1, TRUE, TRUE, FreshResults)
        EXCEPT !.encrypted_commit = NoEncryptedCommit]

ScopeCommits(sc, challenge) ==
    IF sc = "merge"
    THEN {SourceCommit(challenge, enc, ts, rv[1], rv[2], FreshResults) :
            enc \in {1, 3}, ts \in {NoTs, 1, 2},
            rv \in {<<FALSE, FALSE>>, <<TRUE, FALSE>>, <<TRUE, TRUE>>}}
         \cup {SourceCommit(challenge, 1, ts, TRUE, TRUE, ReportedResults) : ts \in {1, 2}}
         \cup {[SourceCommit(challenge, 1, 2, TRUE, FALSE, FreshResults)
                    EXCEPT !.key = OtherKeyOf(1)]}
    ELSE IF sc \in {"pipeline", "reveal"}
    THEN {SourceCommit(challenge, enc, 1, TRUE, TRUE, FreshResults) : enc \in {1, 2, 3}}
         \cup {SourceCommit(challenge, 1, 1, FALSE, FALSE, FreshResults)}
    ELSE IF sc = "cache"
    THEN {SourceCommit(challenge, enc, 1, TRUE, TRUE, FreshResults) : enc \in {1, 3, 4}}
    ELSE IF sc = "order"
    THEN {SourceCommit(challenge, enc, ts, TRUE, TRUE, FreshResults) :
            enc \in {1, 3}, ts \in {NoTs, 1, 2}}
    ELSE IF sc = "snapshot"
    THEN {SourceCommit(challenge, 1, 1, TRUE, TRUE, FreshResults), InvalidCommit(challenge)}
    ELSE {SourceCommit(challenge, enc, 1, TRUE, TRUE, FreshResults) : enc \in {1, 3}}

ScopePasses(sc) ==
    IF sc = "long" THEN MaxLongPasses
    ELSE IF sc = "reveal" THEN MaxRevealPasses
    ELSE IF sc = "run" THEN MaxRunPasses
    ELSE IF sc = "cache" THEN MaxCachePasses
    ELSE IF sc = "exit" THEN MaxExitPasses
    ELSE IF sc = "order" THEN MaxOrderPasses
    ELSE IF sc = "store" THEN MaxStorePasses
    ELSE IF sc = "snapshot" THEN MaxSnapshotPasses
    ELSE MaxPasses

ScopeMaxReports(sc) ==
    IF sc = "reveal" THEN MaxRevealReports
    ELSE IF sc = "snapshot" THEN MaxSnapshotReports
    ELSE MaxReports

\* what _initialize_scoring_cache loaded from storage at construction: nothing,
\* or (reveal scope) also one stored result of challenge c1
StoredResult ==
    [scoring_logs |-> <<[input_hash |-> 8, miner_input |-> 21]>>,
     comparison_logs |-> <<[reference |-> 8, input_hash |-> 8]>>]

\* a stored result of the docker_hub_id
StoredResultOf(id) ==
    [scoring_logs |-> <<[input_hash |-> 8, miner_input |-> id]>>,
     comparison_logs |-> <<[reference |-> 8, input_hash |-> 8]>>]

\* n stored results of a challenge, loaded oldest first: docker_hub_id 22 and others
\* that no commit reveals
StoreLoaded(n) ==
    [i \in 1..n |-> [k |-> IF i = 1 THEN 22 ELSE 29 + i,
                     v |-> StoredResultOf(IF i = 1 THEN 22 ELSE 29 + i)]]

\* the cache scope can also start from two stored results of challenge c1,
\* loaded oldest first, and one of challenge c2
ScopeStoredResults(sc) ==
    {[c \in ActiveChallenges |-> EmptyDict]}
    \cup (IF sc = "reveal"
          THEN {[c \in ActiveChallenges |->
                    IF c = "c1" THEN <<[k |-> 21, v |-> StoredResult]>> ELSE EmptyDict]}
          ELSE IF sc = "cache"
          THEN {[c \in ActiveChallenges |->
                    IF c = "c1" THEN <<[k |-> 21, v |-> StoredResultOf(21)],
                                       [k |-> 22, v |-> StoredResultOf(22)]>>
                    ELSE <<[k |-> 22, v |-> StoredResultOf(22)]>>]}
          ELSE IF sc = "store"
          THEN {[c \in ActiveChallenges |->
                    IF c = "c1" THEN StoreLoaded(n) ELSE EmptyDict] : n \in {4, 10}}
          ELSE {})

Sources(mg) == 1..Len(ValidValidators(mg))

\* the sources whose response holds records; the others answer with no record
\* or fail
ScopeSources(sc, mg) == IF sc \in {"merge", "snapshot"} THEN Sources(mg) ELSE {1}

ScopeReports(sc, mg) ==
    UNION {{[source |-> s, miner |-> ref[1], challenge |-> ref[2], commit |-> c] :
               s \in ScopeSources(sc, mg), c \in ScopeCommits(sc, ref[2])} :
           ref \in ScopeRefs(sc)}

\* in the reveal scope the passes before the last one are a warm-up: the only
\* record a source may report is Miner1's revealed commit 1 for challenge c2
WarmUp(sc, p) == sc = "reveal" /\ p < ScopePasses(sc)

WarmUpCommit == SourceCommit("c2", 1, 1, TRUE, TRUE, FreshResults)

\* the responses of pass p: at most MaxReports records, no (source, miner,
\* challenge) twice, listed source by source
Responses(sc, mg, p) ==
    {reps \in UNION {[1..n -> ScopeReports(sc, mg)] :
                        n \in 0..(IF WarmUp(sc, p) THEN 1 ELSE ScopeMaxReports(sc))} :
        /\ \A i, j \in 1..Len(reps) :
             i < j => /\ reps[i].source <= reps[j].source
                      /\ <<reps[i].source, reps[i].miner, reps[i].challenge>>
                           # <<reps[j].source, reps[j].miner, reps[j].challenge>>
        /\ WarmUp(sc, p) =>
             \A i \in 1..Len(reps) :
                /\ reps[i].miner = Miner1
                /\ reps[i].challenge = "c2"
                /\ reps[i].commit = WarmUpCommit}

-----------------------------------------------------------------------------
(* The pass worker: forward, statement by statement *)

\* no controller run has raised
NoRun == [pass |-> 0, challenge |-> "", refs |-> <<>>, miner_commits |-> <<>>,
          seed_inputs |-> <<>>]

\* a call made by forward, for a challenge or (challenge "") for all of them
Stage(name, challenge) == [stage |-> name, challenge |-> challenge]

NoResponses == [failed |-> {}, reports |-> <<>>]

InitCommon(sc) ==
    /\ scope = sc
    /\ metagraph = InitialMetagraph
    /\ pc = "idle"
    /\ pass = 0
    /\ validators_miner_commits = EmptyDict
    /\ new_miner_commits = EmptyDict
    /\ merge_idx = 1
    /\ miner_commits = EmptyDict
    /\ miner_commits_cache = EmptyDict
    /\ revealed_commits = EmptyDict
    /\ reveal_log = [existing |-> {}, shown |-> {}, skipped |-> {}]
    /\ dispatch_idx = 1
    /\ scoring_results \in ScopeStoredResults(scope)
    /\ scored_ids = [c \in ActiveChallenges |-> {}]
    /\ engine_runs = <<>>
    /\ last_partition = [challenge |-> "", new_commits |-> <<>>, hits |-> <<>>, cached |-> {}]
    /\ completed = EmptyDict
    /\ held_before = {}
    /\ run_pc = "check"
    /\ alive = {}
    /\ merged_under = {}
    /\ canonical_under = {}
    /\ storage_requests = {}
    /\ failed_run = NoRun
    /\ main_pc = "constructed"
    /\ is_running = FALSE
    /\ should_exit = FALSE
    /\ stage_log = <<>>
    /\ requests_sent = <<>>
    /\ responses = NoResponses

Init == InitCommon("pipeline")

InitMerge == InitCommon("merge")

InitReveal == InitCommon("reveal")

InitLong == InitCommon("long")

InitRun == InitCommon("run")

InitCache == InitCommon("cache")

InitExit == InitCommon("exit")

InitOrder == InitCommon("order")

InitStore == InitCommon("store")

InitSnapshot == InitCommon("snapshot")

\* Outside the run and exit scopes the roster never changes, so the
\* supervisor's ticks have no effect on the pass; there they are taken while the
\* worker is idle or waits for its fetches, and the fetches return between two
\* ticks.
Paced == scope \notin {"run", "exit"}

\* a supervisor loop that runs while should_exit is not set
SupervisorTicksUntilExit ==
    main_pc # "constructed" /\ ~should_exit /\ (~Paced \/ pc \in {"idle", "collect"})
\* the supervisor thread exists once __enter__ has started it
SupervisorTicks == main_pc # "constructed" /\ (~Paced \/ pc \in {"idle", "collect"})

FetchesReturn == ~Paced \/ run_pc = "check"

\* run, line 533: self.forward_thread is None or not self.forward_thread.is_alive();
\* forward_thread is the worker of the last pass started
\* mutant of NeedsWorker: a thread is started on every tick
NeedsWorkerEveryTick(last, living) == TRUE
\* mutant of NeedsWorker: a thread is started only when none was ever created
NeedsWorkerOnlyFirst(last, living) == last = 0
NeedsWorker(last, living) == last = 0 \/ last \notin living

\* run, lines 533-540: a new worker thread is created and started; its forward
\* starts: _init_active_challenges leaves the active challenges as they are
StartPass ==
    /\ run_pc = "check"
    /\ SupervisorTicks
    /\ NeedsWorker(pass, alive)
    /\ pass < ScopePasses(scope)
    /\ pass' = pass + 1
    /\ alive' = alive \cup {pass + 1}
    /\ run_pc' = "resync"
    /\ pc' = "collect"
    /\ stage_log' = <<Stage("init_active_challenges", "")>>
    /\ requests_sent' = <<>>
    /\ UNCHANGED <<scope, metagraph, validators_miner_commits, new_miner_commits, merge_idx,
                   miner_commits, miner_commits_cache, revealed_commits, reveal_log,
                   dispatch_idx, scoring_results, scored_ids, engine_runs, last_partition,
                   completed, held_before, merged_under, canonical_under, storage_requests, failed_run, main_vars, responses>>

\* _update_validators_miner_commits
UpdateValidatorsMinerCommits ==
    /\ pc = "collect"
    /\ FetchesReturn
    /\ \E failed \in SUBSET Sources(metagraph), reports \in Responses(scope, metagraph, pass) :
         /\ \A i \in 1..Len(reports) : reports[i].source \notin failed
         /\ validators_miner_commits' =
               FetchAll(metagraph, ValidValidators(metagraph), 1, failed, reports)
         /\ responses' = IF scope = "snapshot"
                          THEN [failed |-> failed, reports |-> reports]
                          ELSE NoResponses
    /\ new_miner_commits' = EmptyDict
    /\ merge_idx' = 1
    /\ merged_under' = {}
    /\ pc' = "merge"
    /\ stage_log' = Append(stage_log, Stage("update_validators_miner_commits", ""))
    /\ UNCHANGED <<scope, metagraph, pass, miner_commits, miner_commits_cache,
                   revealed_commits, reveal_log, dispatch_idx, scoring_results, scored_ids,
                   engine_runs, last_partition, completed, held_before, run_pc, alive, canonical_under, storage_requests, failed_run, main_vars, requests_sent>>

\* _update_miner_commits, lines 649-713: one snapshot merged
MergeNext ==
    /\ pc = "merge"
    /\ merge_idx <= Len(validators_miner_commits)
    /\ new_miner_commits' =
          MergeSnapshot(metagraph, new_miner_commits, validators_miner_commits[merge_idx].v)
    /\ merge_idx' = merge_idx + 1
    /\ merged_under' = merged_under \cup {metagraph}
    /\ UNCHANGED <<scope, metagraph, pc, pass, validators_miner_commits, miner_commits,
                   miner_commits_cache, revealed_commits, reveal_log, dispatch_idx,
                   scoring_results, scored_ids, engine_runs, last_partition, completed, held_before, run_pc, alive, canonical_under, storage_requests, failed_run, main_vars, stage_log, requests_sent, responses>>

\* lines 716-732: carry forward, then self.miner_commits = new_miner_commits.
\* The snapshots and the local new_miner_commits are not read after this
\* statement (line 579 replaces the snapshots in the next pass).
CarryAndAssign ==
    /\ pc = "merge"
    /\ merge_idx > Len(validators_miner_commits)
    /\ miner_commits' = CarryForward(miner_commits, new_miner_commits)
    /\ validators_miner_commits' = EmptyDict
    /\ new_miner_commits' = EmptyDict
    /\ merge_idx' = 1
    /\ canonical_under' = merged_under
    /\ pc' = "sort"
    /\ responses' = NoResponses
    /\ UNCHANGED <<scope, metagraph, pass, miner_commits_cache, revealed_commits,
                   reveal_log, dispatch_idx, scoring_results, scored_ids, engine_runs,
                   last_partition, completed, held_before, run_pc, alive, merged_under, storage_requests, failed_run, main_vars, stage_log, requests_sent>>

\* lines 735-740
SortMinerCommits ==
    /\ pc = "sort"
    /\ miner_commits' = SortByKey(miner_commits)
    /\ pc' = "index"
    /\ UNCHANGED <<scope, metagraph, pass, validators_miner_commits, new_miner_commits,
                   merge_idx, miner_commits_cache, revealed_commits, reveal_log,
                   dispatch_idx, scoring_results, scored_ids, engine_runs, last_partition,
                   completed, held_before, run_pc, alive, merged_under, canonical_under, storage_requests, failed_run, main_vars, stage_log, requests_sent, responses>>

\* lines 743-747
UpdateMinerCommitsCache ==
    /\ pc = "index"
    /\ miner_commits_cache' = BuildIndex(EmptyDict, miner_commits)
    /\ pc' = "reveal"
    /\ stage_log' = Append(stage_log, Stage("update_miner_commits", ""))
    /\ UNCHANGED <<scope, metagraph, pass, validators_miner_commits, new_miner_commits,
                   merge_idx, miner_commits, revealed_commits, reveal_log, dispatch_idx,
                   scoring_results, scored_ids, engine_runs, last_partition, completed, held_before, run_pc, alive, merged_under, canonical_under, storage_requests, failed_run, main_vars, requests_sent, responses>>

\* a forward that filters the reveals before the trackers have the participant info
RevealCommitsBeforeInfos ==
    /\ pc = "reveal"
    /\ LET out == GetRevealedCommits(miner_commits, scored_ids)
       IN /\ miner_commits' = out.mc
          /\ revealed_commits' = out.revealed
          /\ reveal_log' = [existing |-> out.existing, shown |-> out.shown,
                            skipped |-> out.skipped]
    /\ dispatch_idx' = 1
    /\ pc' = "dispatch"
    /\ stage_log' = stage_log \o <<Stage("get_revealed_commits", ""),
                                  Stage("update_miner_infos", "")>>
    /\ UNCHANGED <<scope, metagraph, pass, validators_miner_commits, new_miner_commits,
                   merge_idx, miner_commits_cache, scoring_results, scored_ids, engine_runs,
                   last_partition, completed, held_before, run_pc, alive, merged_under, canonical_under, storage_requests, failed_run, main_vars, requests_sent, responses>>
\* forward, lines 336-351: update_miner_infos and get_revealed_commits
RevealCommits ==
    /\ pc = "reveal"
    /\ LET out == GetRevealedCommits(miner_commits, scored_ids)
       IN /\ miner_commits' = out.mc
          /\ revealed_commits' = out.revealed
          /\ reveal_log' = [existing |-> out.existing, shown |-> out.shown,
                            skipped |-> out.skipped]
    /\ dispatch_idx' = 1
    /\ pc' = "dispatch"
    /\ stage_log' = stage_log \o <<Stage("update_miner_infos", ""),
                                  Stage("get_revealed_commits", "")>>
    /\ UNCHANGED <<scope, metagraph, pass, validators_miner_commits, new_miner_commits,
                   merge_idx, miner_commits_cache, scoring_results, scored_ids, engine_runs,
                   last_partition, completed, held_before, run_pc, alive, merged_under, canonical_under, storage_requests, failed_run, main_vars, requests_sent, responses>>

\* results held by the commits of a state, remembered per (miner, challenge)
RECURSIVE RecordCompleted(_, _, _)
RecordCompleted(done, mc, refs) ==
    IF refs = <<>> THEN done
    ELSE LET commit == GetCommit(mc, Head(refs))
             next == IF HasResults(commit)
                     THEN Put(done, Head(refs),
                              [encrypted_commit |-> commit.encrypted_commit,
                               results |-> Results(commit)])
                     ELSE done
         IN RecordCompleted(next, mc, Tail(refs))

Challenge == revealed_commits[dispatch_idx].k

RevealedList == revealed_commits[dispatch_idx].v

PartitionNow == Partition(miner_commits, GetAllForChallenge(scoring_results, Challenge),
                          RevealedList)

PartitionRecord(part) ==
    [challenge |-> Challenge,
     new_commits |-> DockerIds(miner_commits, part.new_commits),
     hits |-> DockerIds(miner_commits, part.hits),
     cached |-> CacheIds(GetAllForChallenge(scoring_results, Challenge))]

NoPartition == [challenge |-> "", new_commits |-> <<>>, hits |-> <<>>, cached |-> {}]

NoRevealLog == [existing |-> {}, shown |-> {}, skipped |-> {}]

\* forward returns or raises: its locals are gone
ForwardEnds ==
    /\ pc' = "idle"
    /\ revealed_commits' = EmptyDict
    /\ reveal_log' = NoRevealLog
    /\ dispatch_idx' = 1
    /\ last_partition' = NoPartition
    /\ engine_runs' = <<>>
    /\ alive' = alive \ {pass}

\* forward, line 358: a challenge whose revealed list is empty is passed over
SkipChallenge ==
    /\ pc = "dispatch"
    /\ dispatch_idx <= Len(revealed_commits)
    /\ RevealedList = <<>>
    /\ dispatch_idx' = dispatch_idx + 1
    /\ UNCHANGED <<scope, metagraph, pc, pass, validators_miner_commits, new_miner_commits,
                   merge_idx, miner_commits, miner_commits_cache, revealed_commits,
                   reveal_log, scoring_results, scored_ids, engine_runs, last_partition,
                   completed, held_before, run_pc, alive, merged_under, canonical_under, storage_requests, failed_run, main_vars, stage_log, requests_sent, responses>>


\* a dispatch that builds and runs the controller on an empty list of new commits
ScoreNothingNewRunsEngine ==
    /\ pc = "dispatch"
    /\ dispatch_idx <= Len(revealed_commits)
    /\ RevealedList # <<>>
    /\ Challenge \in ActiveChallenges
    /\ PartitionNow.new_commits = <<>>
    /\ miner_commits' = PartitionNow.mc
    /\ scoring_results' = [scoring_results EXCEPT ![Challenge] = PartitionNow.cache]
    /\ last_partition' = PartitionRecord(PartitionNow)
    /\ engine_runs' = Append(engine_runs,
                             [pass |-> pass, challenge |-> Challenge, refs |-> <<>>,
                              miner_commits |-> <<>>,
                              seed_inputs |-> PartitionNow.seed_inputs])
    /\ pc' = "engine"
    /\ stage_log' = stage_log \o <<Stage("score_and_compare", Challenge),
                                  Stage("start_challenge", Challenge)>>
    /\ UNCHANGED <<scope, metagraph, pass, validators_miner_commits, new_miner_commits,
                   merge_idx, miner_commits_cache, revealed_commits, reveal_log,
                   dispatch_idx, scored_ids, completed, held_before, run_pc, alive,
                   merged_under, canonical_under, storage_requests, failed_run, main_vars, requests_sent, responses>>
\* _score_and_compare_new_miner_commits, lines 427-458: every revealed commit
\* is a cache hit, the controller is not run
ScoreNothingNew ==
    /\ pc = "dispatch"
    /\ dispatch_idx <= Len(revealed_commits)
    /\ RevealedList # <<>>
    /\ Challenge \in ActiveChallenges
    /\ PartitionNow.new_commits = <<>>
    /\ miner_commits' = PartitionNow.mc
    /\ scoring_results' = [scoring_results EXCEPT ![Challenge] = PartitionNow.cache]
    /\ last_partition' = PartitionRecord(PartitionNow)
    /\ pc' = "cache"
    /\ stage_log' = Append(stage_log, Stage("score_and_compare", Challenge))
    /\ UNCHANGED <<scope, metagraph, pass, validators_miner_commits, new_miner_commits,
                   merge_idx, miner_commits_cache, revealed_commits, reveal_log,
                   dispatch_idx, scored_ids, engine_runs, completed, held_before, run_pc, alive, merged_under, canonical_under, storage_requests, failed_run, main_vars, requests_sent, responses>>

EngineRun(part, sorted) ==
    [pass |-> pass, challenge |-> Challenge, refs |-> sorted,
     miner_commits |-> DockerIds(miner_commits, sorted),
     seed_inputs |-> part.seed_inputs]

\* lines 427-520: partition, sort, and the controller is built on the new commits
StartChallenge ==
    /\ pc = "dispatch"
    /\ dispatch_idx <= Len(revealed_commits)
    /\ RevealedList # <<>>
    /\ Challenge \in ActiveChallenges
    /\ PartitionNow.new_commits # <<>>
    /\ LET part == PartitionNow
           sorted == SortedByTimestamp(part.mc, part.new_commits)
       IN /\ miner_commits' = part.mc
          /\ scoring_results' = [scoring_results EXCEPT ![Challenge] = part.cache]
          /\ engine_runs' = Append(engine_runs, EngineRun(part, sorted))
          /\ last_partition' = PartitionRecord(part)
    /\ pc' = "engine"
    /\ stage_log' = stage_log \o <<Stage("score_and_compare", Challenge),
                                  Stage("start_challenge", Challenge)>>
    /\ UNCHANGED <<scope, metagraph, pass, validators_miner_commits, new_miner_commits,
                   merge_idx, miner_commits_cache, revealed_commits, reveal_log,
                   dispatch_idx, scored_ids, completed, held_before, run_pc, alive, merged_under, canonical_under, storage_requests, failed_run, main_vars, requests_sent, responses>>

\* lines 522-525: controller.start_challenge() returns, the challenge manager
\* takes the scored commits
ChallengeReturns ==
    /\ pc = "engine"
    /\ LET run == engine_runs[Len(engine_runs)]
           scored == RunEngine(miner_commits, pass, run.refs)
       IN \E accept \in BOOLEAN :
            /\ miner_commits' = UpdateMinerScores(scored, run.refs, accept)
            /\ scored_ids' =
                  IF accept
                  THEN [scored_ids EXCEPT ![Challenge] = @ \cup SeqToSet(run.miner_commits)]
                  ELSE scored_ids
    /\ pc' = "cache"
    /\ stage_log' = Append(stage_log, Stage("update_miner_scores", Challenge))
    /\ UNCHANGED <<scope, metagraph, pass, validators_miner_commits, new_miner_commits,
                   merge_idx, miner_commits_cache, revealed_commits, reveal_log,
                   dispatch_idx, scoring_results, engine_runs, last_partition, completed, held_before, run_pc, alive, merged_under, canonical_under, storage_requests, failed_run, main_vars, requests_sent, responses>>

\* mutant of ChallengeRaises: the exception is swallowed inside the loop over
\* the challenges, which goes on with the next one
ChallengeRaisesGoesOn ==
    /\ pc = "engine"
    /\ dispatch_idx' = dispatch_idx + 1
    /\ pc' = "dispatch"
    /\ UNCHANGED <<scope, metagraph, pass, validators_miner_commits, new_miner_commits,
                   merge_idx, miner_commits, miner_commits_cache, revealed_commits,
                   reveal_log, scoring_results, scored_ids, engine_runs, last_partition,
                   completed, held_before, run_pc, alive, merged_under, canonical_under,
                   storage_requests, failed_run, main_vars, stage_log, requests_sent, responses>>
\* mutant of ChallengeRaises: the cache update of lines 366-374 is done on the
\* way out of the failed challenge
ChallengeRaisesAfterCaching ==
    /\ pc = "engine"
    /\ scoring_results' =
          [scoring_results EXCEPT
              ![Challenge] = UpdateCacheLoop(@, miner_commits, RevealedList)]
    /\ completed' = RecordCompleted(completed, miner_commits, Refs(miner_commits))
    /\ held_before' = held_before \cup SeqToSet(Refs(miner_commits))
    /\ failed_run' = engine_runs[Len(engine_runs)]
    /\ ForwardEnds
    /\ UNCHANGED <<scope, metagraph, pass, validators_miner_commits, new_miner_commits,
                   merge_idx, miner_commits, miner_commits_cache, scored_ids, run_pc,
                   merged_under, canonical_under, storage_requests, main_vars, stage_log, requests_sent, responses>>
\* a forward that issues the public export on its way out of a failed controller run
ChallengeRaisesThenExports ==
    /\ pc = "engine"
    /\ completed' = RecordCompleted(completed, miner_commits, Refs(miner_commits))
    /\ held_before' = held_before \cup SeqToSet(Refs(miner_commits))
    /\ failed_run' = engine_runs[Len(engine_runs)]
    /\ ForwardEnds
    /\ stage_log' = Append(stage_log, Stage("update_validator_state", ""))
    /\ UNCHANGED <<scope, metagraph, pass, validators_miner_commits, new_miner_commits,
                   merge_idx, miner_commits, miner_commits_cache, scoring_results,
                   scored_ids, run_pc, merged_under, canonical_under,
                   storage_requests, main_vars, requests_sent, responses>>
\* line 522 with _run_forward: controller.start_challenge() raises, forward ends there
ChallengeRaises ==
    /\ pc = "engine"
    /\ completed' = RecordCompleted(completed, miner_commits, Refs(miner_commits))
    /\ held_before' = held_before \cup SeqToSet(Refs(miner_commits))
    /\ failed_run' = engine_runs[Len(engine_runs)]
    /\ ForwardEnds
    /\ UNCHANGED <<scope, metagraph, pass, validators_miner_commits, new_miner_commits,
                   merge_idx, miner_commits, miner_commits_cache, scoring_results,
                   scored_ids, run_pc, merged_under, canonical_under,
                   storage_requests, main_vars, stage_log, requests_sent, responses>>

\* mutant of UpdateCache: the bound is applied to the entries of all challenges
\* together, and the oldest entry of another challenge is evicted
UpdateCacheSharedBound ==
    /\ pc = "cache"
    /\ LET written == [scoring_results EXCEPT
                         ![Challenge] = UpdateCacheLoop(@, miner_commits, RevealedList)]
           total == Len(written["c1"]) + Len(written["c2"])
       IN scoring_results' =
             [c \in ActiveChallenges |->
                IF c # Challenge /\ total > MaxSize /\ written[c] # <<>>
                THEN Tail(written[c]) ELSE written[c]]
    /\ pc' = "store"
    /\ stage_log' = Append(stage_log, Stage("cache_set", Challenge))
    /\ UNCHANGED <<scope, metagraph, pass, validators_miner_commits, new_miner_commits,
                   merge_idx, miner_commits, miner_commits_cache, revealed_commits,
                   reveal_log, dispatch_idx, scored_ids, engine_runs, last_partition,
                   completed, held_before, run_pc, alive, merged_under, canonical_under,
                   storage_requests, failed_run, main_vars, requests_sent, responses>>
\* forward, lines 366-374
UpdateCache ==
    /\ pc = "cache"
    /\ scoring_results' =
          [scoring_results EXCEPT
              ![Challenge] = UpdateCacheLoop(@, miner_commits, RevealedList)]
    /\ pc' = "store"
    /\ stage_log' = Append(stage_log, Stage("cache_set", Challenge))
    /\ UNCHANGED <<scope, metagraph, pass, validators_miner_commits, new_miner_commits,
                   merge_idx, miner_commits, miner_commits_cache, revealed_commits,
                   reveal_log, dispatch_idx, scored_ids, engine_runs, last_partition,
                   completed, held_before, run_pc, alive, merged_under, canonical_under, storage_requests, failed_run, main_vars, requests_sent, responses>>

\* the docker_hub_ids of a challenge's cache entries, in the order of .items()
CachedIdsInOrder(cache) == [i \in 1..Len(cache) |-> cache[i].k]

\* _store_miner_commits: the batch of the challenge's revealed commits
UpdateCommitBatch(n, challenge, ids) ==
    [request |-> "update_commit_batch", pass |-> n, challenge |-> challenge, ids |-> ids]

\* _store_centralized_scoring: the entries of the challenge's cache
UploadCentralizedScore(n, challenge, ids) ==
    [request |-> "upload-centralized-score", pass |-> n, challenge |-> challenge,
     ids |-> ids]


\* a forward that leaves the writes to storage to the end of the pass
StoreChallengeDeferred ==
    /\ pc = "store"
    /\ dispatch_idx' = dispatch_idx + 1
    /\ pc' = "dispatch"
    /\ UNCHANGED <<scope, metagraph, pass, validators_miner_commits, new_miner_commits,
                   merge_idx, miner_commits, miner_commits_cache, revealed_commits,
                   reveal_log, scoring_results, scored_ids, engine_runs, last_partition,
                   completed, held_before, run_pc, alive, merged_under, canonical_under,
                   storage_requests, failed_run, main_vars, stage_log, requests_sent, responses>>
\* a request with its outcome: the call returned, or raised and was caught
Sent(request, ok) == [req |-> request, ok |-> ok]

\* the storage requests fail in the store scope only
CommitBatchOutcomes == IF scope = "store" THEN BOOLEAN ELSE {TRUE}

UploadOutcomes == IF scope = "store" THEN SUBSET (1..MaxUploads) ELSE {{}}

\* an upload that keeps the entries of a failed request in the list, to send them again
RECURSIVE SendScoresKeepsFailed(_, _, _, _, _, _)
SendScoresKeepsFailed(n, challenge, sent, to_send, entries, failing) ==
    IF entries = <<>>
    THEN IF to_send # <<>>
         THEN Append(sent, Sent(UploadCentralizedScore(n, challenge, to_send),
                                (Len(sent) + 1) \notin failing))
         ELSE sent
    ELSE LET batch == Append(to_send, Head(entries))
         IN IF Len(batch) >= UPLOAD_BATCH
            THEN SendScoresKeepsFailed(n, challenge,
                     Append(sent, Sent(UploadCentralizedScore(n, challenge, batch),
                                       (Len(sent) + 1) \notin failing)),
                     IF (Len(sent) + 1) \in failing THEN batch ELSE <<>>,
                     Tail(entries), failing)
            ELSE SendScoresKeepsFailed(n, challenge, sent, batch, Tail(entries), failing)
\* _store_centralized_scoring, lines 782-825: the entries are collected in
\* scoring_results_to_send, posted when it holds UPLOAD_BATCH of them and once more at
\* the end when it is not empty; the list is emptied after a post, failed or not
RECURSIVE SendScores(_, _, _, _, _, _)
SendScores(n, challenge, sent, to_send, entries, failing) ==
    IF entries = <<>>
    THEN IF to_send # <<>>
         THEN Append(sent, Sent(UploadCentralizedScore(n, challenge, to_send),
                                (Len(sent) + 1) \notin failing))
         ELSE sent
    ELSE LET batch == Append(to_send, Head(entries))
         IN IF Len(batch) >= UPLOAD_BATCH
            THEN SendScores(n, challenge,
                            Append(sent, Sent(UploadCentralizedScore(n, challenge, batch),
                                              (Len(sent) + 1) \notin failing)),
                            <<>>, Tail(entries), failing)
            ELSE SendScores(n, challenge, sent, batch, Tail(entries), failing)

\* a forward whose loop over the challenges ends at the first failed storage request
StoreChallengeStopsOnFailure ==
    /\ pc = "store"
    /\ \E commits_ok \in CommitBatchOutcomes, failing \in UploadOutcomes :
          LET scores == SendScores(pass, Challenge, <<>>, <<>>,
                            CachedIdsInOrder(GetAllForChallenge(scoring_results, Challenge)),
                            failing)
          IN /\ requests_sent' =
                   Append(requests_sent,
                          Sent(UpdateCommitBatch(pass, Challenge,
                                                 DockerIds(miner_commits, RevealedList)),
                               commits_ok))
                   \o scores
             /\ dispatch_idx' =
                   IF commits_ok /\ \A i \in 1..Len(scores) : scores[i].ok
                   THEN dispatch_idx + 1
                   ELSE Len(revealed_commits) + 1
    /\ storage_requests' =
          storage_requests
          \cup {UpdateCommitBatch(pass, Challenge, DockerIds(miner_commits, RevealedList)),
                UploadCentralizedScore(pass, Challenge,
                    CachedIdsInOrder(GetAllForChallenge(scoring_results, Challenge)))}
    /\ pc' = "dispatch"
    /\ stage_log' = Append(stage_log, Stage("store", Challenge))
    /\ UNCHANGED <<scope, metagraph, pass, validators_miner_commits, new_miner_commits,
                   merge_idx, miner_commits, miner_commits_cache, revealed_commits,
                   reveal_log, scoring_results, scored_ids, engine_runs, last_partition,
                   completed, held_before, run_pc, alive, merged_under, canonical_under,
                   failed_run, main_vars, responses>>
\* forward, lines 381-384: the writes to storage, whose failures are caught
StoreChallenge ==
    /\ pc = "store"
    /\ \E commits_ok \in CommitBatchOutcomes, failing \in UploadOutcomes :
          requests_sent' =
             Append(requests_sent,
                    Sent(UpdateCommitBatch(pass, Challenge,
                                           DockerIds(miner_commits, RevealedList)),
                         commits_ok))
             \o SendScores(pass, Challenge, <<>>, <<>>,
                           CachedIdsInOrder(GetAllForChallenge(scoring_results, Challenge)),
                           failing)
    /\ storage_requests' =
          storage_requests
          \cup {UpdateCommitBatch(pass, Challenge, DockerIds(miner_commits, RevealedList)),
                UploadCentralizedScore(pass, Challenge,
                    CachedIdsInOrder(GetAllForChallenge(scoring_results, Challenge)))}
    /\ dispatch_idx' = dispatch_idx + 1
    /\ pc' = "dispatch"
    /\ stage_log' = Append(stage_log, Stage("store", Challenge))
    /\ UNCHANGED <<scope, metagraph, pass, validators_miner_commits, new_miner_commits,
                   merge_idx, miner_commits, miner_commits_cache, revealed_commits,
                   reveal_log, scoring_results, scored_ids, engine_runs, last_partition,
                   completed, held_before, run_pc, alive, merged_under, canonical_under, failed_run, main_vars, responses>>

\* forward, lines 387-389: the public export ends the pass
ExportState ==
    /\ pc = "dispatch"
    /\ dispatch_idx > Len(revealed_commits)
    /\ completed' = RecordCompleted(completed, miner_commits, Refs(miner_commits))
    /\ held_before' = held_before \cup SeqToSet(Refs(miner_commits))
    /\ ForwardEnds
    /\ stage_log' = Append(stage_log, Stage("update_validator_state", ""))
    /\ UNCHANGED <<scope, metagraph, pass, validators_miner_commits, new_miner_commits,
                   merge_idx, miner_commits, miner_commits_cache, scoring_results,
                   scored_ids, run_pc, merged_under, canonical_under,
                   storage_requests, failed_run, main_vars, requests_sent, responses>>

\* the variables of the pass worker and of the state it works on
worker_vars ==
    <<pc, pass, alive, validators_miner_commits, new_miner_commits, merge_idx,
      miner_commits, miner_commits_cache, revealed_commits, reveal_log, dispatch_idx,
      scoring_results, scored_ids, engine_runs, last_partition, completed, held_before,
      merged_under, canonical_under, storage_requests, failed_run, stage_log,
      requests_sent, responses>>

\* run, line 533: the worker of the last pass is alive, no thread is started
KeepWorker ==
    /\ run_pc = "check"
    /\ SupervisorTicks
    /\ ~NeedsWorker(pass, alive)
    /\ run_pc' = "resync"
    /\ UNCHANGED <<scope, metagraph, worker_vars, main_vars>>

\* the rosters a resync can bring
ReplacedMetagraph == [hotkeys |-> <<10, 11, 14, 13>>, S |-> <<10, 10, 0, 0>>]

ScopeMetagraphs(sc) ==
    IF sc = "run" THEN {InitialMetagraph, ReplacedMetagraph} ELSE {InitialMetagraph}

\* run, lines 544-545: resync_metagraph returns, the roster is the chain's
ResyncReturns ==
    /\ run_pc = "resync"
    /\ SupervisorTicks
    /\ metagraph' \in ScopeMetagraphs(scope)
    /\ run_pc' = "resynced"
    /\ UNCHANGED <<scope, worker_vars, main_vars>>

\* where run continues after the except clause of lines 546-547
\* mutant of AfterResyncError: the exception leaves the loop
AfterResyncErrorLeavesLoop == "exited"
AfterResyncError == "resync_error"

\* run, lines 546-547: resync_metagraph raises, the error is logged
ResyncRaises ==
    /\ run_pc = "resync"
    /\ SupervisorTicks
    /\ run_pc' = AfterResyncError
    /\ UNCHANGED <<scope, metagraph, worker_vars, main_vars>>

\* run, line 553: the sleep until the next tick
Sleep ==
    /\ run_pc \in {"resynced", "resync_error"}
    /\ SupervisorTicks
    /\ run_pc' = "check"
    /\ UNCHANGED <<scope, metagraph, worker_vars, main_vars>>

\* __enter__, synthetic_loop_in_background_thread, _base.py lines 97-102: the
\* supervisor thread is created and started
Enter ==
    /\ main_pc = "constructed"
    /\ ~is_running
    /\ should_exit' = FALSE
    /\ is_running' = TRUE
    /\ main_pc' = "with"
    /\ UNCHANGED <<scope, metagraph, run_pc, worker_vars>>

\* the with block is left at any moment in the exit scope; in the other scopes
\* it is left when the last pass is over
MainThreadLeaves ==
    \/ scope = "exit"
    \/ (pass = ScopePasses(scope) /\ pc = "idle" /\ run_pc = "check")

\* __exit__, _base.py lines 163-165: the flag is set
ExitBegins ==
    /\ main_pc = "with"
    /\ MainThreadLeaves
    /\ is_running
    /\ should_exit' = TRUE
    /\ main_pc' = "join_thread"
    /\ UNCHANGED <<scope, metagraph, run_pc, worker_vars, is_running>>

\* __exit__, line 167: self.thread.join(5) comes back when its timeout is over,
\* the supervisor's loop has no end
JoinThread ==
    /\ main_pc = "join_thread"
    /\ main_pc' = "join_forward"
    /\ UNCHANGED <<scope, metagraph, run_pc, worker_vars, is_running, should_exit>>

\* the value is_running has when __exit__ returns
AfterExit == FALSE

\* mutant of JoinForward: the join of the worker has no timeout
JoinForwardUnbounded ==
    /\ main_pc = "join_forward"
    /\ alive = {}
    /\ is_running' = AfterExit
    /\ main_pc' = "stopped"
    /\ UNCHANGED <<scope, metagraph, run_pc, worker_vars, should_exit>>
\* __exit__, lines 168-171: forward_thread.join(timeout=5) when the worker is
\* alive, which comes back when the worker is over or the timeout is; then
\* is_running is cleared and __exit__ returns
JoinForward ==
    /\ main_pc = "join_forward"
    /\ is_running' = AfterExit
    /\ main_pc' = "stopped"
    /\ UNCHANGED <<scope, metagraph, run_pc, worker_vars, should_exit>>

Next ==
    \/ Enter
    \/ ExitBegins
    \/ JoinThread
    \/ JoinForward
    \/ StartPass
    \/ KeepWorker
    \/ ResyncReturns
    \/ ResyncRaises
    \/ Sleep
    \/ UpdateValidatorsMinerCommits
    \/ MergeNext
    \/ CarryAndAssign
    \/ SortMinerCommits
    \/ UpdateMinerCommitsCache
    \/ RevealCommits
    \/ SkipChallenge
    \/ ScoreNothingNew
    \/ StartChallenge
    \/ ChallengeReturns
    \/ ChallengeRaises
    \/ UpdateCache
    \/ StoreChallenge
    \/ ExportState

Spec == Init /\ [][Next]_vars

SpecMerge == InitMerge /\ [][Next]_vars

SpecReveal == InitReveal /\ [][Next]_vars

SpecLong == InitLong /\ [][Next]_vars

SpecRun == InitRun /\ [][Next]_vars

SpecCache == InitCache /\ [][Next]_vars

SpecExit == InitExit /\ [][Next]_vars

SpecOrder == InitOrder /\ [][Next]_vars

SpecStore == InitStore /\ [][Next]_vars

SpecSnapshot == InitSnapshot /\ [][Next]_vars

-----------------------------------------------------------------------------
(* Properties of the merge (_update_miner_commits) *)

Snapshots == validators_miner_commits

\* both fetched snapshots of the pass are still to be, or have been, merged
TwoSnapshots == pc = "merge" /\ Len(Snapshots) = 2

Reported(i, ref) == HasCommit(Snapshots[i].v, ref) /\ IsValidMiner(metagraph, ref[1])

SnapshotCommit(i, ref) == GetCommit(Snapshots[i].v, ref)

SameEncrypted(a, b) == a.encrypted_commit = b.encrypted_commit

\* the ordering of the two timestamps is ambiguous: equal, or one is missing
Ambiguous(a, b) == ~BothSet(a, b) \/ a.commit_timestamp = b.commit_timestamp

Earlier(a, b) == BothSet(a, b) /\ a.commit_timestamp < b.commit_timestamp

\* payload, revealed reference and timestamp of a record
Submission(c) ==
    [encrypted_commit |-> c.encrypted_commit, commit |-> c.commit,
     commit_timestamp |-> c.commit_timestamp]

RECURSIVE Reverse(_)
Reverse(s) == IF s = <<>> THEN <<>> ELSE Append(Reverse(Tail(s)), Head(s))

\* the CanonicalState the pass would produce from the snapshots in this order
AThenB == Reconcile(metagraph, Snapshots, miner_commits)

BThenA == Reconcile(metagraph, Reverse(Snapshots), miner_commits)

\* C1: two snapshots report one (miner, challenge) with different encrypted
\* commits and set timestamps t1 < t2: after _update_miner_commits the record
\* of miner_commits is the t2 snapshot's record (encrypted commit, revealed
\* commit and timestamp), whichever snapshot was merged first.
C1_LaterRecordWins ==
    [][(pc = "merge" /\ pc' = "sort") =>
        \A i \in 1..Len(Snapshots), j \in 1..Len(Snapshots), ref \in ScopeRefs(scope) :
            (/\ i # j
             /\ Reported(i, ref) /\ Reported(j, ref)
             /\ ~SameEncrypted(SnapshotCommit(i, ref), SnapshotCommit(j, ref))
             /\ Earlier(SnapshotCommit(i, ref), SnapshotCommit(j, ref)))
            => /\ HasCommit(miner_commits', ref)
               /\ Submission(GetCommit(miner_commits', ref))
                    = Submission(SnapshotCommit(j, ref))]_vars

\* C2 as stated: two snapshots report one (miner, challenge) with the same
\* encrypted commit and set timestamps t1 < t2: merging them in either order
\* gives the same CanonicalState, and the merged timestamp is t1.
C2_SameCommitConverges ==
    TwoSnapshots =>
        \A ref \in ScopeRefs(scope) :
            (/\ Reported(1, ref) /\ Reported(2, ref)
             /\ SameEncrypted(SnapshotCommit(1, ref), SnapshotCommit(2, ref))
             /\ \/ Earlier(SnapshotCommit(1, ref), SnapshotCommit(2, ref))
                \/ Earlier(SnapshotCommit(2, ref), SnapshotCommit(1, ref)))
            => /\ AThenB = BThenA
               /\ \A i \in 1..2 :
                    GetCommit(AThenB, ref).commit_timestamp <= SnapshotCommit(i, ref).commit_timestamp

\* the two records report the same key and the same revealed commit wherever
\* both report one
Agree(a, b) ==
    /\ a.key = NoKey \/ b.key = NoKey \/ a.key = b.key
    /\ a.commit = NoCommit \/ b.commit = NoCommit \/ a.commit = b.commit

\* the fields the merge never reconciles
Unmerged(c) == [docker_hub_id |-> c.docker_hub_id, results |-> Results(c)]

\* C2 amended: in both orders the merged record has the same encrypted commit
\* and the timestamp t1, and, when the two sources agree on the key and the
\* revealed commit, the same key and revealed commit; the whole records are
\* equal when, besides, the two snapshots' records have the same remaining
\* fields, or have the same docker_hub_id and the previous miner_commits holds
\* that encrypted commit (its results are carried forward).
C2_SameCommitConvergesOnSubmission ==
    TwoSnapshots =>
        \A ref \in ScopeRefs(scope) :
            (/\ Reported(1, ref) /\ Reported(2, ref)
             /\ SameEncrypted(SnapshotCommit(1, ref), SnapshotCommit(2, ref))
             /\ \/ Earlier(SnapshotCommit(1, ref), SnapshotCommit(2, ref))
                \/ Earlier(SnapshotCommit(2, ref), SnapshotCommit(1, ref)))
            => LET ab == GetCommit(AThenB, ref)
                   ba == GetCommit(BThenA, ref)
                   a == SnapshotCommit(1, ref)
                   b == SnapshotCommit(2, ref)
               IN /\ SameEncrypted(ab, a) /\ SameEncrypted(ba, a)
                  /\ ab.commit_timestamp = ba.commit_timestamp
                  /\ ab.commit_timestamp \in {a.commit_timestamp, b.commit_timestamp}
                  /\ ab.commit_timestamp <= a.commit_timestamp
                  /\ ab.commit_timestamp <= b.commit_timestamp
                  /\ Agree(a, b) => (ab.key = ba.key /\ ab.commit = ba.commit)
                  /\ (/\ Agree(a, b)
                      /\ \/ Unmerged(a) = Unmerged(b)
                         \/ /\ a.docker_hub_id = b.docker_hub_id
                            /\ HasCommit(miner_commits, ref)
                            /\ SameEncrypted(GetCommit(miner_commits, ref), a))
                     => ab = ba

\* C2 witness: both snapshots merged, same encrypted commit, the second one
\* earlier, and the merged record took the earlier timestamp
C2_Witness ==
    /\ TwoSnapshots
    /\ merge_idx = 3
    /\ \E ref \in ScopeRefs(scope) :
         /\ Reported(1, ref) /\ Reported(2, ref)
         /\ SameEncrypted(SnapshotCommit(1, ref), SnapshotCommit(2, ref))
         /\ Earlier(SnapshotCommit(2, ref), SnapshotCommit(1, ref))
         /\ Results(SnapshotCommit(1, ref)) # Results(SnapshotCommit(2, ref))
         /\ GetCommit(new_miner_commits, ref).commit_timestamp
              = SnapshotCommit(2, ref).commit_timestamp

\* C3: two snapshots report different encrypted commits for one (miner,
\* challenge), with any timestamps: merging them in either order gives the
\* same CanonicalState.
C3_ConflictMergeCommutes ==
    TwoSnapshots =>
        \A ref \in ScopeRefs(scope) :
            (/\ Reported(1, ref) /\ Reported(2, ref)
             /\ ~SameEncrypted(SnapshotCommit(1, ref), SnapshotCommit(2, ref)))
            => AThenB = BThenA

\* C4: a merge step whose candidate has a different encrypted commit than the
\* record merged so far, with equal timestamps or one of them missing, leaves
\* that record unchanged in every field.
C4_AmbiguousKeepsExisting ==
    [][(pc = "merge" /\ merge_idx' = merge_idx + 1) =>
        \A ref \in ScopeRefs(scope) :
            (/\ HasCommit(new_miner_commits, ref)
             /\ Reported(merge_idx, ref)
             /\ ~SameEncrypted(GetCommit(new_miner_commits, ref),
                               SnapshotCommit(merge_idx, ref))
             /\ Ambiguous(GetCommit(new_miner_commits, ref), SnapshotCommit(merge_idx, ref)))
            => /\ HasCommit(new_miner_commits', ref)
               /\ GetCommit(new_miner_commits', ref) = GetCommit(new_miner_commits, ref)]_vars

\* C4 witness: the second snapshot was merged onto a record with another
\* encrypted commit and an ambiguous timestamp order, one of them set
C4_Witness ==
    /\ TwoSnapshots
    /\ merge_idx = 3
    /\ \E ref \in ScopeRefs(scope) :
         /\ Reported(1, ref) /\ Reported(2, ref)
         /\ ~SameEncrypted(SnapshotCommit(1, ref), SnapshotCommit(2, ref))
         /\ Ambiguous(SnapshotCommit(1, ref), SnapshotCommit(2, ref))
         /\ Truthy(SnapshotCommit(2, ref).commit_timestamp)
         /\ GetCommit(new_miner_commits, ref) = SnapshotCommit(1, ref)

\* C5: after the carry-forward, every (miner, challenge) that the previous and
\* the new miner_commits hold with the same encrypted commit has the previous
\* record's scoring_logs, comparison_logs, score, penalty and accepted.
C5_CarryForward ==
    [][(pc = "merge" /\ pc' = "sort") =>
        \A ref \in ScopeRefs(scope) :
            (/\ HasCommit(miner_commits, ref)
             /\ HasCommit(miner_commits', ref)
             /\ SameEncrypted(GetCommit(miner_commits, ref), GetCommit(miner_commits', ref)))
            => Results(GetCommit(miner_commits', ref)) = Results(GetCommit(miner_commits, ref))]_vars

\* C5 witness: in the second pass, before any controller ran in it, a record
\* holds the logs the controller wrote in the first pass and the challenge
\* manager's score
C5_Witness ==
    /\ pc = "sort"
    /\ pass = 2
    /\ \E ref \in ScopeRefs(scope) :
         /\ HasCommit(miner_commits, ref)
         /\ GetCommit(miner_commits, ref).scoring_logs
              = <<[input_hash |-> 1, miner_input |-> 21]>>
         /\ GetCommit(miner_commits, ref).penalty = 0
         /\ GetCommit(miner_commits, ref).accepted

\* C6: once a record holds results, every later miner_commits that holds the
\* same (miner, challenge) with the same encrypted commit holds the same
\* results, also after passes in which no source reported the miner.
C6_CompletedWorkKept ==
    pc \in {"sort", "index", "reveal"} =>
        \A ref \in Keys(completed) :
            (/\ HasCommit(miner_commits, ref)
             /\ GetCommit(miner_commits, ref).encrypted_commit
                  = Get(completed, ref).encrypted_commit)
            => Results(GetCommit(miner_commits, ref)) = Get(completed, ref).results

-----------------------------------------------------------------------------
(* Properties of the reveal filter and of the dispatcher *)

\* C7: when the controller is started, no docker_hub_id it receives is held by
\* the challenge's ScoringLRUCache, as it was when the partition was made and
\* as it is now.
C7_NoCachedIdToEngine ==
    pc = "engine" =>
        LET run == engine_runs[Len(engine_runs)]
        IN /\ run.challenge = last_partition.challenge
           /\ \A i \in 1..Len(run.miner_commits) :
                /\ run.miner_commits[i] \notin last_partition.cached
                /\ run.miner_commits[i] \notin
                      CacheIds(GetAllForChallenge(scoring_results, run.challenge))

\* C7 witness: the controller starts on a list of which one revealed commit
\* was found in the cache and another one was not
C7_Witness ==
    /\ pc = "engine"
    /\ last_partition.hits # <<>>
    /\ last_partition.new_commits # <<>>
    /\ \E i \in 1..Len(last_partition.hits) : last_partition.hits[i] \in last_partition.cached
    /\ engine_runs[Len(engine_runs)].miner_commits # <<>>

\* get_revealed_commits has just returned
JustRevealed == pc = "dispatch" /\ dispatch_idx = 1

\* the list returned for a challenge, as a set
Output(challenge) ==
    IF Has(revealed_commits, challenge)
    THEN SeqToSet(Get(revealed_commits, challenge))
    ELSE {}

IsRevealed(ref) == GetCommit(miner_commits, ref).commit # NoCommit

IdOf(ref) == SplitDockerHubId(GetCommit(miner_commits, ref).commit)

\* the records of one challenge that reveal one docker_hub_id
Sharing(challenge, id) ==
    {ref \in SeqToSet(Refs(miner_commits)) :
        ref[2] = challenge /\ IsRevealed(ref) /\ IdOf(ref) = id}

Position(ref) == CHOOSE i \in 1..Len(Refs(miner_commits)) : Refs(miner_commits)[i] = ref

\* the record of the smallest (uid, hotkey) among some records of one challenge
Smallest(refs) == CHOOSE r \in refs : \A o \in refs : o = r \/ KeyLess(r[1], o[1])

\* a record iterated before ref reveals the same id and is not historically
\* scored in its own challenge, so the id was seen before ref was reached
SeenBefore(ref) ==
    \E o \in SeqToSet(Refs(miner_commits)) :
        /\ Position(o) < Position(ref)
        /\ IsRevealed(o)
        /\ IdOf(o) = IdOf(ref)
        /\ IdOf(o) \notin scored_ids[o[2]]

RevealedIds == {21, 22}

\* C8 as stated: several miners reveal one docker_hub_id in one challenge and
\* the id is not historically scored: the list returned for the challenge
\* holds exactly one of their records, the one of the smallest (uid, hotkey).
C8_OneOfSharedIdRevealed ==
    JustRevealed =>
        \A challenge \in ActiveChallenges, id \in RevealedIds :
            (/\ Cardinality(Sharing(challenge, id)) >= 2
             /\ id \notin scored_ids[challenge])
            => Output(challenge) \cap Sharing(challenge, id)
                 = {Smallest(Sharing(challenge, id))}

\* C8 amended: of the records of one challenge that reveal one docker_hub_id
\* not historically scored in it, the returned list holds at most one, and it
\* holds exactly the one of the smallest (uid, hotkey) unless the id was seen
\* earlier in the iteration, in a record of another challenge; then it holds
\* none of them.
C8_OneOfSharedIdUnlessSeen ==
    JustRevealed =>
        \A challenge \in ActiveChallenges, id \in RevealedIds :
            (/\ Cardinality(Sharing(challenge, id)) >= 2
             /\ id \notin scored_ids[challenge])
            => LET first == Smallest(Sharing(challenge, id))
               IN /\ \A o \in Sharing(challenge, id) : Position(first) <= Position(o)
                  /\ Output(challenge) \cap Sharing(challenge, id)
                       = IF SeenBefore(first) THEN {} ELSE {first}

\* C8 witness: two miners reveal one id in one challenge, the id was not seen
\* before, and the list of the challenge holds the first miner's record only
C8_Witness ==
    /\ JustRevealed
    /\ \E challenge \in ActiveChallenges, id \in RevealedIds :
         /\ Cardinality(Sharing(challenge, id)) >= 2
         /\ id \notin scored_ids[challenge]
         /\ ~SeenBefore(Smallest(Sharing(challenge, id)))
         /\ Get(revealed_commits, challenge) = <<Smallest(Sharing(challenge, id))>>

\* a second call of get_revealed_commits on the state the first call left
SecondCall == GetRevealedCommits(miner_commits, scored_ids)

\* C9 as stated: a second call of get_revealed_commits, with miner_commits and
\* the scored ids unchanged, returns an empty list for every challenge.
C9_SecondCallEmpty ==
    JustRevealed =>
        \A challenge \in Keys(SecondCall.revealed) :
            Get(SecondCall.revealed, challenge) = <<>>

\* C9 amended: a second call of get_revealed_commits, with miner_commits and
\* the scored ids unchanged, returns the same lists as the first call and
\* leaves miner_commits as the first call left it.
C9_SecondCallSame ==
    JustRevealed =>
        /\ SecondCall.revealed = revealed_commits
        /\ SecondCall.mc = miner_commits
        /\ SecondCall.existing = reveal_log.existing
        /\ SecondCall.skipped = reveal_log.skipped

\* C9 witness: the first call returned a commit, set its docker_hub_id, and
\* classified another commit as existing
C9_Witness ==
    /\ JustRevealed
    /\ reveal_log.shown # {}
    /\ reveal_log.existing # {}
    /\ \E ref \in reveal_log.shown :
         GetCommit(miner_commits, ref).docker_hub_id = IdOf(ref)

\* forward has dispatched every challenge of the pass
PassEnds == pc = "dispatch" /\ dispatch_idx > Len(revealed_commits)

\* the controller scored the record in the first pass
ScoredInFirstPass(ref) ==
    /\ Has(completed, ref)
    /\ Len(Get(completed, ref).results.scoring_logs) = 1
    /\ Get(completed, ref).results.scoring_logs[1].input_hash = 1

ScoredId(ref) == Get(completed, ref).results.scoring_logs[1].miner_input

\* C10: miner E1 revealed d1 in challenge c1 in the first pass and it was
\* scored and cached; miner E2 reveals d1 in c1 in the second pass: E2's commit
\* is classified existing, no controller run of the second pass receives d1,
\* and at the end of the pass E2's commit holds the cached scoring_logs and
\* comparison_logs of d1.
C10_SecondPassServedFromCache ==
    (pass = 2 /\ PassEnds) =>
        \A e1 \in {Miner1, Miner2}, e2 \in {Miner1, Miner2} :
            (/\ e1 # e2
             /\ ScoredInFirstPass(<<e1, "c1">>)
             /\ Has(scoring_results["c1"], ScoredId(<<e1, "c1">>))
             /\ <<e2, "c1">> \notin held_before
             /\ HasCommit(miner_commits, <<e2, "c1">>)
             /\ IsRevealed(<<e2, "c1">>)
             /\ IdOf(<<e2, "c1">>) = ScoredId(<<e1, "c1">>))
            => LET d1 == ScoredId(<<e1, "c1">>)
                   commit == GetCommit(miner_commits, <<e2, "c1">>)
                   cached_result == Get(scoring_results["c1"], d1)
               IN /\ <<e2, "c1">> \in reveal_log.existing
                  /\ \A i \in 1..Len(engine_runs) :
                        engine_runs[i].challenge = "c1"
                            => d1 \notin SeqToSet(engine_runs[i].miner_commits)
                  /\ commit.scoring_logs = cached_result.scoring_logs
                  /\ commit.comparison_logs = cached_result.comparison_logs

-----------------------------------------------------------------------------
(* Properties of the supervisor and of the roster *)

\* the entity (uid, hotkey) is in the roster: the uid is a slot of it and the
\* slot holds the hotkey
Registered(mg, miner) ==
    \E slot \in 1..Len(mg.hotkeys) : slot = miner[1] + 1 /\ mg.hotkeys[slot] = miner[2]

\* C11 as stated: in every state, each (uid, hotkey) of miner_commits is valid
\* for the current metagraph: uid < len(hotkeys) and hotkeys[uid] = hotkey.
C11_OnlyCurrentlyValid ==
    \A miner \in Keys(miner_commits) : Registered(metagraph, miner)

\* C12: at most one pass worker is alive in every state, and a step that starts
\* a worker is taken only when no worker was ever started or the last one
\* started is no longer alive.
C12_OnePassAtATime ==
    /\ [](Cardinality(alive) <= 1)
    /\ [][alive' \ alive # {} => (pass = 0 \/ alive = {})]_vars

\* C12 witness: the supervisor has passed its check while the worker of the
\* second pass is in the middle of forward, and started nothing
C12_Witness ==
    /\ run_pc = "resync"
    /\ pass = 2
    /\ alive = {2}
    /\ pc = "engine"

\* the supervisor keeps ticking and every call of resync_metagraph comes back,
\* by returning or by raising
SupervisorFairness ==
    /\ WF_vars(StartPass)
    /\ WF_vars(KeepWorker)
    /\ WF_vars(ResyncReturns \/ ResyncRaises)
    /\ WF_vars(Sleep)

SpecRunLive == InitRun /\ [][Next]_vars /\ SupervisorFairness

\* the worker of pass n is over, by the return of forward or by an exception
Terminated(n) == pass = n /\ n \notin alive

\* C13: once the worker of a pass has terminated, normally or because forward
\* raised, a fresh worker is eventually started; and the step on which forward
\* raises leaves the supervisor where it is in its loop.
C13_WorkerRestarted ==
    /\ \A n \in 1..(MaxRunPasses - 1) : Terminated(n) ~> (n + 1) \in alive
    /\ [][pc = "engine" /\ pc' = "idle" => run_pc' = run_pc]_vars

\* C13 witness: forward raised in the first pass, which held commits and stored
\* nothing, and the worker of the second pass is alive
C13_Witness ==
    /\ pass = 2
    /\ alive = {2}
    /\ held_before # {}
    /\ storage_requests = {}

\* the worker as the supervisor can see it and act on it
WorkerThread == <<pass, alive, pc>>

\* C14: every tick goes from the check of the worker to a resync, whether it
\* started a worker, kept a running one or found none to keep; a resync that
\* raises sends the loop to its sleep and then to the next check, and neither
\* outcome of the resync stops or restarts the worker; a pass that raises
\* leaves the loop where it is, resync included.
C14_ResyncEveryTick ==
    /\ [][run_pc = "check" /\ run_pc' # "check" => run_pc' = "resync"]_vars
    /\ [][run_pc = "resync" /\ run_pc' # "resync"
            => /\ run_pc' \in {"resynced", "resync_error"}
               /\ WorkerThread' = WorkerThread]_vars
    /\ [][run_pc = "resync_error" /\ run_pc' # "resync_error"
            => run_pc' = "check" /\ WorkerThread' = WorkerThread]_vars
    /\ [][pc = "engine" /\ pc' = "idle" /\ run_pc = "resync"
            => run_pc' = "resync" /\ metagraph' = metagraph]_vars

\* C14 witness: resync_metagraph raised while the worker of the first pass was
\* in the middle of forward, and the worker is still there
C14_Witness ==
    /\ run_pc = "resync_error"
    /\ alive = {1}
    /\ pc = "engine"

-----------------------------------------------------------------------------
(* Properties of failures inside a pass *)

\* what source number i alone answered
ResponseOf(reports, i) == SelectSeq(reports, LAMBDA r : r.source = i)

\* the position of a source in the list of the valid ones
PlaceIn(valid, key) == CHOOSE i \in 1..Len(valid) : valid[i] = key

\* the collection `got` holds no entry of a failed source, and of every other
\* source exactly the snapshot parsed from that source's own response, in the
\* order of the valid sources
CollectedWithout(mg, valid, failed, reports, got) ==
    /\ \A i \in 1..Len(valid) :
          IF i \in failed THEN ~Has(got, valid[i])
          ELSE /\ Has(got, valid[i])
               /\ Get(got, valid[i]) = ParseResponse(mg, EmptyDict, ResponseOf(reports, i))
    /\ Len(got) = Len(valid) - Cardinality(failed)
    /\ \A a, b \in 1..Len(got) : a < b => PlaceIn(valid, got[a].k) < PlaceIn(valid, got[b].k)

\* C15: whenever the pass is about to collect, for every set of failing sources
\* and every set of responses (those of the failing sources included) the
\* collection holds nothing of a failing source and, of each other source, what
\* that source alone answered; and the pass goes from collection to the merge.
C15_SourceFailureIsLocal ==
    /\ [](pc = "collect" =>
            \A failed \in SUBSET Sources(metagraph),
               reports \in Responses(scope, metagraph, pass) :
                 CollectedWithout(metagraph, ValidValidators(metagraph), failed, reports,
                                  FetchAll(metagraph, ValidValidators(metagraph), 1,
                                           failed, reports)))
    /\ [][pc = "collect" /\ pc' # "collect" => pc' = "merge"]_vars

\* C15 witness: the first source failed, the second one's snapshot holds a
\* record, and the pass is at the merge
C15_Witness ==
    /\ pc = "merge"
    /\ Len(validators_miner_commits) = 1
    /\ validators_miner_commits[1].k = ValidValidators(metagraph)[2]
    /\ validators_miner_commits[1].v # EmptyDict

\* a storage write of challenge c was issued in pass n
Stored(n, c) == \E req \in storage_requests : req.pass = n /\ req.challenge = c

\* C16: a call of the engine ends in one of two ways: it returns and the pass
\* goes on to the cache update, or it raises and the pass is over at once; in
\* the second case the cache and the storage writes issued so far, those of the
\* earlier challenges of the pass included, are as they were, and nothing more
\* of that pass happens: the next step of a worker is the collection of the
\* next pass.
C16_EngineFailureEndsPass ==
    /\ [][pc = "engine" /\ pc' # "engine"
            => \/ pc' = "cache"
               \/ /\ pc' = "idle"
                  /\ pass \notin alive'
                  /\ scoring_results' = scoring_results
                  /\ storage_requests' = storage_requests]_vars
    /\ [][pc = "idle" /\ pc' # "idle" => pc' = "collect" /\ pass' = pass + 1]_vars
    /\ [][pass' = pass => storage_requests \subseteq storage_requests']_vars

\* C16 witness: the first pass stored challenge c1 and cached its result, then
\* the engine raised on challenge c2, whose revealed commit is held unscored
C16_Witness ==
    /\ pc = "idle"
    /\ pass = 1
    /\ Stored(1, "c1")
    /\ ~Stored(1, "c2")
    /\ scoring_results["c1"] # <<>>
    /\ \E miner \in Keys(miner_commits) :
          /\ Has(Get(miner_commits, miner), "c2")
          /\ Get(Get(miner_commits, miner), "c2").commit # NoCommit
          /\ ~HasResults(Get(Get(miner_commits, miner), "c2"))

\* the step on which a pass ends, by the return of forward or by an exception
PassIsOver == pc # "idle" /\ pc' = "idle"

\* the docker_hub_ids that were new in the controller run that raised
FailedIds == SeqToSet(failed_run.miner_commits)

\* the pass that is running is the one after the pass in which the run raised
NextPassAfterFailure == failed_run.pass > 0 /\ pass = failed_run.pass + 1

\* the id was handed to the controller of the challenge in the current pass
Handed(challenge, id) ==
    \E i \in 1..Len(engine_runs) :
        /\ engine_runs[i].challenge = challenge
        /\ id \in SeqToSet(engine_runs[i].miner_commits)

\* get_revealed_commits listed a record of the challenge that reveals the id
Listed(challenge, id) ==
    \E ref \in reveal_log.shown : ref[2] = challenge /\ IdOf(ref) = id

\* the loop over the challenges of the current pass got to the challenge
Reached(challenge) ==
    \E i \in 1..Len(revealed_commits) :
        revealed_commits[i].k = challenge /\ i <= dispatch_idx

\* on the step on which the controller raises, none of the ids that were new
\* in that run is in the challenge's cache afterwards
FailedIdsNotCached ==
    [][pc = "engine" /\ pc' = "idle"
         => \A id \in SeqToSet(engine_runs[Len(engine_runs)].miner_commits) :
               ~Has(scoring_results'[Challenge], id)]_vars

-----------------------------------------------------------------------------
(* Properties of the cache of scoring results *)

\* the docker_hub_ids a commit can reveal
CacheableIds == {DockerOf(enc) : enc \in 1..4}

\* the place of an id in a challenge's entries, the least recently used first
Age(cache, id) == CHOOSE i \in 1..Len(cache) : cache[i].k = id

\* the step that writes the revealed commits of the current challenge into the cache
CacheIsUpdated == pc = "cache" /\ pc' = "store"

Written == SeqToSet(DockerIds(miner_commits, RevealedList))

\* C18: every challenge holds at most MaxSize entries, one per id; a set of an
\* absent id on a full challenge removes exactly the least recently used entry
\* and leaves MaxSize entries; and the cache update of a pass that brings the
\* ids of a challenge to MaxSize + 1 leaves MaxSize entries and evicts one
\* entry, which is older than every entry it keeps without writing it.
C18_CacheBound ==
    /\ [](\A c \in ActiveChallenges :
            /\ Len(scoring_results[c]) <= MaxSize
            /\ Cardinality(Keys(scoring_results[c])) = Len(scoring_results[c])
            /\ \A id \in CacheableIds :
                 LET before == scoring_results[c]
                     after == CacheSet(before, id, StoredResultOf(id))
                 IN /\ Len(after) <= MaxSize
                    /\ after[Len(after)].k = id
                    /\ (~Has(before, id) /\ Len(before) = MaxSize)
                         => /\ Len(after) = MaxSize
                            /\ Keys(before) \ Keys(after) = {before[1].k}
                    /\ (Has(before, id) \/ Len(before) < MaxSize)
                         => Keys(after) = Keys(before) \cup {id})
    /\ [][CacheIsUpdated
            => LET before == scoring_results[Challenge]
                   after == scoring_results'[Challenge]
                   evicted == Keys(before) \ Keys(after)
               IN /\ Keys(after) \subseteq Keys(before) \cup Written
                  /\ Cardinality(Keys(before) \cup Written) <= MaxSize => evicted = {}
                  /\ Cardinality(Keys(before) \cup Written) = MaxSize + 1
                       => /\ Len(after) = MaxSize
                          /\ Cardinality(evicted) = 1
                          /\ \A e \in evicted, k \in (Keys(after) \cap Keys(before)) \ Written :
                                Age(before, e) < Age(before, k)]_vars

\* C18 witness: the cache update of a challenge has just left it full, without
\* an id that an earlier upload of the challenge's cache listed
C18_Witness ==
    /\ pc = "store"
    /\ Len(scoring_results[Challenge]) = MaxSize
    /\ \E req \in storage_requests :
          /\ req.request = "upload-centralized-score"
          /\ req.challenge = Challenge
          /\ \E i \in 1..Len(req.ids) : ~Has(scoring_results[Challenge], req.ids[i])

\* the step that partitions the revealed commits of the current challenge
\* into cache hits and new commits
Partitioned == pc = "dispatch" /\ pc' \in {"engine", "cache"}

\* the ids that the partition just made found in the cache, in order
HitIds == last_partition'.hits

\* C19: the gets of a partition leave every entry and its result in the cache;
\* the ids that were hit are the most recently used ones afterwards, the last
\* one hit last of all; the entries that were not hit keep their order and are
\* older than every hit; a partition without a hit leaves the cache as it was;
\* and a set of an absent id on the challenge, when full, then evicts the
\* oldest entry of that order, which is an entry that was not hit if there is one.
C19_HitIsMostRecentlyUsed ==
    [][Partitioned
         => LET before == scoring_results[Challenge]
                after == scoring_results'[Challenge]
                hit == SeqToSet(HitIds)
            IN /\ Items(after) = Items(before)
               /\ Len(after) = Len(before)
               /\ HitIds = <<>> => after = before
               /\ HitIds # <<>> => after[Len(after)].k = HitIds[Len(HitIds)]
               /\ \A h \in hit, k \in Keys(before) \ hit : Age(after, k) < Age(after, h)
               /\ \A a, b \in Keys(before) \ hit :
                     Age(before, a) < Age(before, b) => Age(after, a) < Age(after, b)
               /\ Len(after) = MaxSize =>
                     \A id \in CacheableIds \ Keys(after) :
                        LET evicted == Keys(after)
                                          \ Keys(CacheSet(after, id, StoredResultOf(id)))
                        IN /\ evicted = {after[1].k}
                           /\ Keys(before) \ hit # {} => evicted \cap hit = {}]_vars

\* C19 witness: in the first pass the partition of challenge c1 found id 21,
\* the older of the two entries loaded at construction, and it is now the
\* most recently used one
C19_Witness ==
    /\ pass = 1
    /\ pc \in {"engine", "cache"}
    /\ Challenge = "c1"
    /\ last_partition.hits # <<>>
    /\ Len(scoring_results["c1"]) = 2
    /\ scoring_results["c1"][1].k = 22
    /\ scoring_results["c1"][2].k = 21

\* C20: a step changes the entries or their order in a challenge's cache only
\* if it is the partition or the cache update of that challenge; so the sets
\* on one challenge, evictions included, leave every other challenge's entries
\* and recency order as they were.
C20_CategoriesAreIsolated ==
    [][\A c \in ActiveChallenges :
          scoring_results'[c] # scoring_results[c]
             => /\ Partitioned \/ CacheIsUpdated
                /\ c = Challenge]_vars

\* C20 witness: the cache update of challenge c1 has evicted an id that an
\* earlier upload of c1 listed, while challenge c2 holds an entry
C20_Witness ==
    /\ pc = "store"
    /\ Challenge = "c1"
    /\ scoring_results["c2"] # <<>>
    /\ \E req \in storage_requests :
          /\ req.request = "upload-centralized-score"
          /\ req.challenge = "c1"
          /\ \E i \in 1..Len(req.ids) : ~Has(scoring_results["c1"], req.ids[i])

-----------------------------------------------------------------------------
(* Properties of the shutdown and of the order of a pass *)

\* each join of __exit__ comes back
ExitFairness == WF_vars(JoinThread) /\ WF_vars(JoinForward)

SpecExitLive == InitExit /\ [][Next]_vars /\ ExitFairness

\* C21: once __exit__ has set the flag it returns, whatever the supervisor and
\* the worker do and however long they live; when it has returned is_running
\* is false; and no step of __exit__ changes the supervisor's position, the
\* worker's position, the set of live workers or any state the worker works on.
C21_ExitDoesNotPreempt ==
    /\ (main_pc = "join_thread") ~> (main_pc = "stopped")
    /\ [](main_pc = "stopped" => ~is_running)
    /\ [][(main_pc \in {"with", "join_thread", "join_forward"} /\ main_pc' # main_pc)
            => (worker_vars' = worker_vars /\ run_pc' = run_pc)]_vars

\* C21 witness: __exit__ has returned while the worker of a pass is in the
\* middle of forward
C21_Witness ==
    /\ main_pc = "stopped"
    /\ ~is_running
    /\ alive = {pass}
    /\ pc = "engine"

\* ---------------------------------------------------------------------------
\* C22: stage order within one forward pass

\* the stages of a pass in the order the pass runs them; every call made for one
\* category belongs to the dispatch stage
StageOrder ==
    <<"init_active_challenges", "update_validators_miner_commits", "update_miner_commits",
      "update_miner_infos", "get_revealed_commits", "dispatch", "update_validator_state">>

DispatchStages ==
    {"score_and_compare", "start_challenge", "update_miner_scores", "cache_set", "store"}

StageRank(entry) ==
    LET name == IF entry.stage \in DispatchStages THEN "dispatch" ELSE entry.stage
    IN CHOOSE r \in 1..Len(StageOrder) : StageOrder[r] = name

\* C22: the stages a pass has completed so far are, in order, a prefix of: refresh of the
\* active categories, collect, reconcile, update of the trackers' participant info,
\* reveal filter, per-category dispatch, public export; each of the stages outside the
\* dispatch runs once, and a stage is logged only after every stage before it
C22_StagesInOrder ==
    /\ \A i \in 1..Len(stage_log) :
           /\ stage_log[i].stage \in DispatchStages \/ stage_log[i].stage \in
                  {StageOrder[r] : r \in 1..Len(StageOrder)} \ {"dispatch"}
           /\ i < Len(stage_log)
                  => /\ StageRank(stage_log[i]) <= StageRank(stage_log[i + 1])
                     /\ StageRank(stage_log[i]) = StageRank(stage_log[i + 1])
                            => stage_log[i].stage \in DispatchStages
    /\ \A i \in 1..Len(stage_log) :
           \A r \in 1..5 :
               r < StageRank(stage_log[i])
                   => \E k \in 1..(i - 1) : StageRank(stage_log[k]) = r

C22_Witness ==
    /\ pc = "idle"
    /\ stage_log # <<>>
    /\ stage_log[Len(stage_log)].stage = "update_validator_state"
    /\ \E i \in 1..Len(stage_log) : stage_log[i].stage = "store"
    /\ \E i \in 1..Len(stage_log) : stage_log[i].stage = "update_miner_scores"

\* ---------------------------------------------------------------------------
\* C23: the storage writes of a category come before the engine run of the next

IssuedFor(n, challenge) ==
    /\ \E r \in storage_requests :
           r.request = "update_commit_batch" /\ r.pass = n /\ r.challenge = challenge
    /\ \E r \in storage_requests :
           r.request = "upload-centralized-score" /\ r.pass = n /\ r.challenge = challenge

\* C23: whenever the engine has been invoked for a category in a pass, every other
\* category dispatched earlier in that pass has had both its storage writes issued,
\* after its dispatch and before that invocation
C23_StoredBeforeNextEngine ==
    \A j \in 1..Len(stage_log) :
        stage_log[j].stage = "start_challenge"
            => \A i \in 1..(j - 1) :
                   (stage_log[i].stage = "score_and_compare"
                        /\ stage_log[i].challenge # stage_log[j].challenge)
                       => /\ \E k \in (i + 1)..(j - 1) :
                                 stage_log[k] = Stage("store", stage_log[i].challenge)
                          /\ IssuedFor(pass, stage_log[i].challenge)

C23_Witness ==
    /\ pc = "engine"
    /\ Challenge = "c2"
    /\ \E i \in 1..Len(stage_log) : stage_log[i] = Stage("start_challenge", "c1")
    /\ IssuedFor(pass, "c1")

\* ---------------------------------------------------------------------------
\* C24: the cache write and the handoff to the challenge manager

HandedToTracker(challenge) ==
    /\ stage_log # <<>>
    /\ stage_log[Len(stage_log)] = Stage("update_miner_scores", challenge)

\* C24: when the records of a successful engine run are handed to the challenge
\* manager (update_miner_scores), the result of each of them is already in the cache
C24_CachedBeforeTracker ==
    \A c \in ActiveChallenges :
        (pc = "cache" /\ HandedToTracker(c))
            => \A i \in 1..Len(engine_runs[Len(engine_runs)].miner_commits) :
                   Has(scoring_results[c], engine_runs[Len(engine_runs)].miner_commits[i])

\* ---------------------------------------------------------------------------
\* C25: how often the engine and the tracker are called

\* the revealed commits of the challenge at hand whose id is not a key of its cache
NewIdsNow ==
    {id \in SeqToSet(DockerIds(miner_commits, RevealedList)) :
        \A i \in 1..Len(scoring_results[Challenge]) : scoring_results[Challenge][i].k # id}

AtChallenge == pc = "dispatch" /\ dispatch_idx <= Len(revealed_commits)

Invocations(challenge) ==
    Cardinality({i \in 1..Len(stage_log) : stage_log[i] = Stage("start_challenge", challenge)})

\* C25: in a pass the engine is invoked at most once per category; the dispatch of a
\* category invokes it, on exactly the new records, when the new partition is not empty,
\* and invokes neither it nor the tracker's score update when the partition is empty;
\* a category whose revealed list is empty gets neither dispatcher nor engine; the
\* tracker's score update is only ever called on the return of an engine run
C25_EngineOncePerCategory ==
    /\ [](\A c \in ActiveChallenges : Invocations(c) <= 1)
    /\ [][(AtChallenge /\ RevealedList # <<>> /\ dispatch_idx' = dispatch_idx)
            => IF NewIdsNow = {}
               THEN /\ engine_runs' = engine_runs
                    /\ scored_ids' = scored_ids
                    /\ (pc' # pc => /\ pc' = "cache"
                                    /\ Invocations(Challenge)' = Invocations(Challenge)
                                    /\ ~HandedToTracker(Challenge)')
               ELSE pc' # pc
                      => /\ pc' = "engine"
                         /\ Len(engine_runs') = Len(engine_runs) + 1
                         /\ engine_runs'[Len(engine_runs')].challenge = Challenge
                         /\ SeqToSet(engine_runs'[Len(engine_runs')].miner_commits) = NewIdsNow
                         /\ Invocations(Challenge)' = 1]_vars
    /\ [][(AtChallenge /\ RevealedList = <<>>)
            => /\ engine_runs' = engine_runs
               /\ scored_ids' = scored_ids
               /\ scoring_results' = scoring_results
               /\ stage_log' = stage_log
               /\ pc' = pc]_vars
    /\ [][(scored_ids' # scored_ids \/ (stage_log' # stage_log /\ stage_log' # <<>>
                                          /\ stage_log'[Len(stage_log')].stage = "update_miner_scores"))
            => pc = "engine" /\ pc' = "cache"]_vars

C25_Witness ==
    /\ pc = "idle"
    /\ \E c, d \in ActiveChallenges :
          /\ \E i \in 1..Len(stage_log) : stage_log[i] = Stage("score_and_compare", c)
          /\ Invocations(c) = 0
          /\ Invocations(d) = 1
    /\ stage_log[Len(stage_log)].stage = "update_validator_state"

\* ---------------------------------------------------------------------------
\* C26: the results of a successful engine run are in the cache

\* the revealed list of a challenge in the pass at hand
RevealedOf(challenge) ==
    LET at == {i \in 1..Len(revealed_commits) : revealed_commits[i].k = challenge}
    IN IF at = {} THEN <<>> ELSE revealed_commits[CHOOSE i \in at : TRUE].v

CacheUpdatedFor(challenge) ==
    \E i \in 1..Len(stage_log) : stage_log[i] = Stage("cache_set", challenge)

\* what the engine run of pass n writes on the record with the id
WrittenByEngine(n, id) ==
    [scoring_logs |-> <<[input_hash |-> n, miner_input |-> id]>>,
     comparison_logs |-> <<[reference |-> n, input_hash |-> n]>>]

\* C26: once the cache update that follows a successful engine run for a category is
\* done, and for the rest of the pass, the cache of the category has an entry for the id
\* of every new record of that run, holding the scoring and comparison logs the engine
\* wrote, provided the pass cached no more records for the category than the bound
C26_NewResultsAreCached ==
    \A r \in 1..Len(engine_runs) :
        LET run == engine_runs[r]
        IN (CacheUpdatedFor(run.challenge) /\ Len(RevealedOf(run.challenge)) <= MaxSize)
               => \A i \in 1..Len(run.miner_commits) :
                      /\ Has(scoring_results[run.challenge], run.miner_commits[i])
                      /\ Get(scoring_results[run.challenge], run.miner_commits[i])
                             = WrittenByEngine(run.pass, run.miner_commits[i])
                      /\ GetCommit(miner_commits, run.refs[i]).scoring_logs
                             = WrittenByEngine(run.pass, run.miner_commits[i]).scoring_logs

\* C26 witness: the cache update after an engine run has evicted a loaded entry and the
\* challenge, full, holds the new result
C26_Witness ==
    /\ pc = "store"
    /\ engine_runs # <<>>
    /\ engine_runs[Len(engine_runs)].challenge = Challenge
    /\ Len(scoring_results[Challenge]) = MaxSize
    /\ Has(scoring_results[Challenge], engine_runs[Len(engine_runs)].miner_commits[1])
    /\ \E req \in storage_requests :
          /\ req.request = "upload-centralized-score"
          /\ req.challenge = Challenge
          /\ \E i \in 1..Len(req.ids) : ~Has(scoring_results[Challenge], req.ids[i])

\* ---------------------------------------------------------------------------
\* C27, C28: what get_revealed_commits returns

\* C27: when get_revealed_commits has returned, every record in the list of a challenge
\* is a record of that challenge with a revealed plaintext whose docker_hub_id is not in
\* the challenge's historically scored set, and a record without a revealed plaintext is
\* in no list
C27_RevealSound ==
    JustRevealed =>
        /\ \A c \in ActiveChallenges :
               \A ref \in Output(c) :
                   /\ ref[2] = c
                   /\ GetCommit(miner_commits, ref).commit # NoCommit
                   /\ SplitDockerHubId(GetCommit(miner_commits, ref).commit)
                          \notin scored_ids[c]
        /\ \A ref \in SeqToSet(Refs(miner_commits)) :
               GetCommit(miner_commits, ref).commit = NoCommit
                   => \A c \in ActiveChallenges : ref \notin Output(c)

\* C27 witness: the call returned a record, left out one whose id is historically
\* scored, and left out one that is not revealed
C27_Witness ==
    /\ JustRevealed
    /\ \E c \in ActiveChallenges : Output(c) # {}
    /\ \E ref \in SeqToSet(Refs(miner_commits)) :
          IsRevealed(ref) /\ IdOf(ref) \in scored_ids[ref[2]]
    /\ \E ref \in SeqToSet(Refs(miner_commits)) : ~IsRevealed(ref)

\* C28: when get_revealed_commits has returned, every record with a revealed plaintext
\* whose docker_hub_id is neither historically scored in its challenge nor seen earlier
\* in the iteration of the call is logged as revealed and is in the list of its challenge
\* exactly once, and every list holds its records in ascending (uid, hotkey) order
C28_RevealComplete ==
    JustRevealed =>
        /\ \A ref \in SeqToSet(Refs(miner_commits)) :
               (/\ GetCommit(miner_commits, ref).commit # NoCommit
                /\ IdOf(ref) \notin scored_ids[ref[2]]
                /\ ~SeenBefore(ref))
               => /\ ref \in reveal_log.shown
                  /\ Has(revealed_commits, ref[2])
                  /\ Cardinality({i \in 1..Len(Get(revealed_commits, ref[2])) :
                                     Get(revealed_commits, ref[2])[i] = ref}) = 1
        /\ \A c \in Keys(revealed_commits) :
               \A i, j \in 1..Len(Get(revealed_commits, c)) :
                   i < j => KeyLess(Get(revealed_commits, c)[i][1],
                                    Get(revealed_commits, c)[j][1])

\* C28 witness: the list of one challenge holds the records of two miners, the smaller
\* (uid, hotkey) first, and another record was left out as existing
C28_Witness ==
    /\ JustRevealed
    /\ \E c \in ActiveChallenges :
          /\ Has(revealed_commits, c)
          /\ Len(Get(revealed_commits, c)) = 2
          /\ KeyLess(Get(revealed_commits, c)[1][1], Get(revealed_commits, c)[2][1])
    /\ reveal_log.existing # {}

\* ---------------------------------------------------------------------------
\* C29, C30: the order of miner_commits and its replacement

Ascending(mc) == \A i, j \in 1..Len(mc) : i < j => KeyLess(mc[i].k, mc[j].k)

\* _update_miner_commits is not between its assignment of miner_commits and its return
UpdateCompleted == pc \notin {"sort", "index"}

\* C29: whenever _update_miner_commits has completed, miner_commits lists its
\* (uid, hotkey) keys in strictly ascending order
C29_CanonicalOrder == UpdateCompleted => Ascending(miner_commits)

\* C29 witness: the update has completed with two miners, the smaller key first
C29_Witness ==
    /\ pc = "reveal"
    /\ Len(miner_commits) = 2
    /\ KeyLess(miner_commits[1].k, miner_commits[2].k)

\* the merge order is not the key order: the aggregate is unsorted when it is assigned
UnsortedAssigned == pc = "sort" /\ ~Ascending(miner_commits)

\* miner_commits is sorted and miner_commits_cache is the index built from it
Complete ==
    /\ Ascending(miner_commits)
    /\ miner_commits_cache = BuildIndex(EmptyDict, miner_commits)

\* C30: at every moment at which another thread can read them, miner_commits and
\* miner_commits_cache are a complete state: the previous one or the new one, sorted and
\* with the index built from it, never the merged aggregate before the sort and never
\* an index of another state
C30_AtomicReplacement == Complete

\* outside the update the state is complete
CompleteOutsideUpdate == UpdateCompleted => Complete

\* the index is the one of the state replaced while the new aggregate is already assigned
StaleIndex ==
    /\ pc = "index"
    /\ miner_commits_cache # BuildIndex(EmptyDict, miner_commits)
    /\ miner_commits_cache # EmptyDict

-----------------------------------------------------------------------------
(* Properties of the evaluation order, the storage writes and the export *)

HasTimestamp(ref) == GetCommit(miner_commits, ref).commit_timestamp # NoTs

\* C31: the list the controller is started on holds every record of the new partition
\* (the revealed records of the challenge whose id is not in its cache) exactly once, in
\* ascending order of commit timestamp, the records without a timestamp after all
\* records with one
C31_EvaluationOrder ==
    pc = "engine" =>
        LET run == engine_runs[Len(engine_runs)]
            new == {ref \in SeqToSet(RevealedList) :
                       ~Has(scoring_results[Challenge],
                            GetCommit(miner_commits, ref).docker_hub_id)}
        IN /\ SeqToSet(run.refs) = new
           /\ Len(run.refs) = Cardinality(new)
           /\ \A i, j \in 1..Len(run.refs) :
                 i < j =>
                    /\ HasTimestamp(run.refs[j]) => HasTimestamp(run.refs[i])
                    /\ (HasTimestamp(run.refs[i]) /\ HasTimestamp(run.refs[j]))
                          => GetCommit(miner_commits, run.refs[i]).commit_timestamp
                               <= GetCommit(miner_commits, run.refs[j]).commit_timestamp

\* C31 witness: the controller is started on two records which the revealed list holds
\* in the other order; in one case the later timestamp came first, in the other the
\* record without a timestamp
C31_Witness ==
    /\ pc = "engine"
    /\ Len(engine_runs[Len(engine_runs)].refs) = 2
    /\ RevealedList[1] = engine_runs[Len(engine_runs)].refs[2]
    /\ HasTimestamp(RevealedList[2])

C31_WitnessMissingLast ==
    /\ C31_Witness
    /\ ~HasTimestamp(RevealedList[1])

\* the requests of one kind sent for a challenge in the pass, as indices of the log
SentFor(kind, challenge) ==
    {i \in 1..Len(requests_sent) :
        requests_sent[i].req.request = kind /\ requests_sent[i].req.challenge = challenge}

Failed(i) == ~requests_sent[i].ok

Exported ==
    /\ pc = "idle"
    /\ stage_log # <<>>
    /\ stage_log[Len(stage_log)].stage = "update_validator_state"

\* C32: whatever the outcomes of the storage requests of a category, the step that
\* issues them goes on to the next category in the same pass and changes nothing but
\* the record of the requests; no request is sent twice and a category has at most one
\* batch append per pass; and a pass that ends with the export has issued the batch
\* append of every category it dispatched, whether or not earlier requests failed
C32_StorageFailuresDropped ==
    /\ [][(pc = "store" /\ pc' # pc)
            => /\ pc' = "dispatch"
               /\ dispatch_idx' = dispatch_idx + 1
               /\ alive' = alive
               /\ revealed_commits' = revealed_commits
               /\ scoring_results' = scoring_results
               /\ miner_commits' = miner_commits
               /\ Len(requests_sent') > Len(requests_sent)]_vars
    /\ [](\A i, j \in 1..Len(requests_sent) :
             i # j => requests_sent[i].req # requests_sent[j].req)
    /\ [](\A c \in ActiveChallenges :
             Cardinality(SentFor("update_commit_batch", c)) <= 1)
    /\ [](Exported =>
             \A i \in 1..Len(stage_log) :
                 stage_log[i].stage = "score_and_compare"
                    => SentFor("update_commit_batch", stage_log[i].challenge) # {})

\* C32 witness: a pass has ended with the export after the batch append and an upload
\* of challenge c1 failed and the requests of challenge c2 were sent
C32_Witness ==
    /\ Exported
    /\ \E i \in SentFor("update_commit_batch", "c1") : Failed(i)
    /\ \E i \in SentFor("upload-centralized-score", "c1") : Failed(i)
    /\ \E i \in SentFor("update_commit_batch", "c2") :
          \A j \in SentFor("upload-centralized-score", "c1") : j < i
    /\ SentFor("upload-centralized-score", "c2") # {}

\* the upload requests sent for a challenge in the pass, in order
UploadsFor(challenge) ==
    SelectSeq(requests_sent,
              LAMBDA r : r.req.request = "upload-centralized-score"
                         /\ r.req.challenge = challenge)

RECURSIVE IdsOf(_)
IdsOf(requests) ==
    IF requests = <<>> THEN <<>> ELSE Head(requests).req.ids \o IdsOf(Tail(requests))

StoredIn(challenge) ==
    \E i \in 1..Len(stage_log) : stage_log[i] = Stage("store", challenge)

\* C33: once _store_centralized_scoring has run for a category in a pass, every entry of
\* the category's cache is in exactly one of the upload requests sent for it, the
\* requests list the entries in the order of the cache, each request carries between 1
\* and 5 entries, whichever of the requests failed; for a category not stored in the pass
\* no upload is sent
C33_UploadBatches ==
    \A c \in ActiveChallenges :
        IF StoredIn(c)
        THEN /\ IdsOf(UploadsFor(c)) = [i \in 1..Len(scoring_results[c]) |->
                                          scoring_results[c][i].k]
             /\ \A i \in 1..Len(scoring_results[c]) :
                   Cardinality({r \in 1..Len(UploadsFor(c)) :
                       \E e \in 1..Len(UploadsFor(c)[r].req.ids) :
                           UploadsFor(c)[r].req.ids[e] = scoring_results[c][i].k}) = 1
             /\ \A r \in 1..Len(UploadsFor(c)) :
                   /\ Len(UploadsFor(c)[r].req.ids) >= 1
                   /\ Len(UploadsFor(c)[r].req.ids) <= 5
        ELSE UploadsFor(c) = <<>>

\* C33 witness: eleven entries went out in requests of five, five and one, of which the
\* first failed and the second did not
C33_Witness ==
    /\ StoredIn("c1")
    /\ Len(UploadsFor("c1")) = 3
    /\ Len(UploadsFor("c1")[1].req.ids) = 5
    /\ Len(UploadsFor("c1")[2].req.ids) = 5
    /\ Len(UploadsFor("c1")[3].req.ids) = 1
    /\ ~UploadsFor("c1")[1].ok
    /\ UploadsFor("c1")[2].ok

\* the records in the lists get_revealed_commits returned, of all challenges
AllOutput == UNION {Output(c) : c \in ActiveChallenges}

\* C34: when get_revealed_commits has returned, every revealed record that comes, in
\* the iteration, after a listed record with the same docker_hub_id is logged as
\* existing and is in no list, whatever the challenges of the two records; and over the
\* lists of all challenges together no docker_hub_id occurs twice
C34_SeenSetIsShared ==
    JustRevealed =>
        /\ \A a \in AllOutput :
               \A b \in SeqToSet(Refs(miner_commits)) :
                   (/\ Position(a) < Position(b)
                    /\ GetCommit(miner_commits, b).commit # NoCommit
                    /\ IdOf(b) = IdOf(a))
                   => b \in reveal_log.existing /\ b \notin AllOutput
        /\ \A a, b \in AllOutput : a # b => IdOf(a) # IdOf(b)
        /\ \A c \in Keys(revealed_commits) :
               \A i, j \in 1..Len(Get(revealed_commits, c)) :
                   i # j => Get(revealed_commits, c)[i] # Get(revealed_commits, c)[j]

\* C34 witness: a record of one challenge is listed and a later record of the other
\* challenge with the same id, not scored in its challenge, is left out as existing
C34_Witness ==
    /\ JustRevealed
    /\ \E a \in AllOutput, b \in reveal_log.existing :
          /\ a[2] # b[2]
          /\ Position(a) < Position(b)
          /\ IdOf(a) = IdOf(b)
          /\ IdOf(b) \notin scored_ids[b[2]]

\* what source number i answered in the pass
Answer(i) == SelectSeq(responses.reports, LAMBDA r : r.source = i)

\* the record is of a miner whose hotkey is in the metagraph, so it is validated
IsValidated(r) == \E u \in 1..Len(metagraph.hotkeys) : metagraph.hotkeys[u] = r.miner[2]

FailsValidation(i) ==
    \E k \in 1..Len(Answer(i)) :
        IsValidated(Answer(i)[k]) /\ Answer(i)[k].commit.encrypted_commit = NoEncryptedCommit

Recorded(i) == Has(validators_miner_commits, ValidValidators(metagraph)[i])

\* C35: after the collection, a source one of whose validated records failed validation
\* has no entry in validators_miner_commits, whatever it reported before that record; a
\* source that has an entry was fetched, none of its records failed, and the entry holds
\* every validated record of its response; no entry holds a record that fails validation
C35_SnapshotAllOrNothing ==
    pc = "merge" =>
        /\ \A i \in 1..Len(ValidValidators(metagraph)) :
              /\ FailsValidation(i) => ~Recorded(i)
              /\ Recorded(i) =>
                    /\ i \notin responses.failed
                    /\ ~FailsValidation(i)
                    /\ LET snapshot == Get(validators_miner_commits,
                                           ValidValidators(metagraph)[i])
                       IN /\ \A k \in 1..Len(Answer(i)) :
                                IsValidated(Answer(i)[k]) =>
                                   /\ Has(snapshot, Answer(i)[k].miner)
                                   /\ Has(Get(snapshot, Answer(i)[k].miner),
                                          Answer(i)[k].challenge)
                                   /\ Get(Get(snapshot, Answer(i)[k].miner),
                                          Answer(i)[k].challenge) = Answer(i)[k].commit
                          /\ scope = "snapshot" =>
                                \A m \in 1..Len(snapshot) :
                                    \E k \in 1..Len(Answer(i)) :
                                        Answer(i)[k].miner = snapshot[m].k
        /\ \A s \in 1..Len(validators_miner_commits) :
              \A m \in 1..Len(validators_miner_commits[s].v) :
                  \A c \in 1..Len(validators_miner_commits[s].v[m].v) :
                      validators_miner_commits[s].v[m].v[c].v.encrypted_commit
                          # NoEncryptedCommit

\* C35 witness: the first source answered a valid record and then one that fails
\* validation, and has no entry; the second source answered a record and has its entry
C35_Witness ==
    /\ pc = "merge"
    /\ Len(Answer(1)) = 2
    /\ Answer(1)[1].commit.encrypted_commit # NoEncryptedCommit
    /\ IsValidated(Answer(1)[1])
    /\ FailsValidation(1)
    /\ 1 \notin responses.failed
    /\ ~Recorded(1)
    /\ Len(Answer(2)) = 1
    /\ Recorded(2)
    /\ Get(validators_miner_commits, ValidValidators(metagraph)[2]) # EmptyDict

Exports == {i \in 1..Len(stage_log) : stage_log[i].stage = "update_validator_state"}

\* C36: a pass issues the public export at most once, as its last call; the step that
\* issues it is taken when every category with a revealed list that is not empty has
\* been dispatched and has had its storage writes issued, and no controller run of the
\* pass has raised; on the step on which a controller run raises the pass ends without
\* an export
C36_ExportOnceAfterAll ==
    /\ [](Cardinality(Exports) <= 1)
    /\ [](\A i \in Exports : i = Len(stage_log) /\ failed_run.pass # pass)
    /\ [][(Exports' # {} /\ Exports = {})
            => /\ pc = "dispatch"
               /\ pc' = "idle"
               /\ \A i \in 1..Len(revealed_commits) :
                     revealed_commits[i].v # <<>>
                        => /\ \E k \in 1..Len(stage_log) :
                                 stage_log[k] = Stage("score_and_compare", revealed_commits[i].k)
                           /\ StoredIn(revealed_commits[i].k)
                           /\ SentFor("update_commit_batch", revealed_commits[i].k) # {}
                           /\ IssuedFor(pass, revealed_commits[i].k)]_vars
    /\ [][(pc = "engine" /\ pc' = "idle")
            => /\ failed_run'.pass = pass
               /\ Exports' = {}
               /\ pass \notin alive']_vars
    /\ [](failed_run.pass = pass => Exports = {})

\* C36 witness: the first pass was ended by a controller run that raised, and the second
\* pass has issued its export after the storage writes of a dispatched category
C36_Witness ==
    /\ pc = "idle"
    /\ pass = 2
    /\ failed_run.pass = 1
    /\ Cardinality(Exports) = 1
    /\ \E c \in ActiveChallenges : StoredIn(c)

\* a pass ended by a controller run that raised, after the storage writes of an earlier
\* category, has no export
AbortedWithoutExport ==
    /\ pc = "idle"
    /\ failed_run.pass = pass
    /\ \E c \in ActiveChallenges : StoredIn(c)
    /\ Exports = {}

-----------------------------------------------------------------------------
(* Properties of the supervisor after the shutdown *)

\* the supervisor thread, a daemon, goes on for as long as the process lives
SpecExitTicks == InitExit /\ [][Next]_vars /\ SupervisorFairness

====
